---- MODULE Spec2Model ----
(* FTD Analytics: the analysis cycle of app.py (startup run, timer loop,   *)
(* manual trigger), the EV scorer of scraper.py and the Kelly stake of     *)
(* db.py.                                                                  *)
(*                                                                         *)
(* Numbers are fixed point, so that every product and comparison is exact: *)
(*   probabilities and boosts   in millionths        (0.28  = 280000)      *)
(*   decimal odds               in hundredths        (3.50  = 350)         *)
(*   ev_percent                 in tenths of percent (57.5% = 575)         *)
(*   the returned model_prob    in thousandths       (0.45  = 450)         *)
(*   liquidity and bankroll     in whole currency units                    *)
(* round() is Python's round-half-to-even on the decimal value; the        *)
(* binary representation error of a float is below this resolution.        *)
(* Strings that the code searches (league names) are sequences of          *)
(* one-character strings, so that `in` is a real substring test.           *)
EXTENDS Integers, Sequences, FiniteSets, TLC

-----------------------------------------------------------------------------
(* Bounds of the model                                                     *)

MaxTriggers == 2      \* POST /trigger-analysis requests in one behaviour
MaxTicks == 1         \* iterations of the timer loop in one behaviour
MaxFixtures == 1      \* fixtures in one provider response
MaxPatterns == 1      \* patterns returned by one research_recent_draws call
MaxDashRows == 2      \* prediction rows rendered by one dashboard request
MaxListLen == 3       \* patterns in one list handed to combine_patterns
MaxLeagueDraws == 12  \* recent draws of one league in one list
MaxHitRows == 3      \* HITs of the first group of a backtest history
MaxPendingRows == 2  \* pending predictions of earlier cycles in the store
MaxBatches == 2      \* league batches of one fetch loop
MaxDays == 2         \* days in dates_to_check
MaxGroupRows == 7     \* marked predictions of one (league, reasons) group

-----------------------------------------------------------------------------
(* Arithmetic helpers                                                      *)

Min(a, b) == IF a < b THEN a ELSE b

Max(a, b) == IF a > b THEN a ELSE b

Abs(a) == IF a < 0 THEN -a ELSE a

\* round(n / d) for d > 0: nearest integer, a tie goes to the even one
RoundHalfEven(n, d) ==
    LET q == n \div d
        r == n - q * d
    IN  IF 2 * r < d THEN q
        ELSE IF 2 * r > d THEN q + 1
        ELSE IF q % 2 = 0 THEN q ELSE q + 1

RECURSIVE SumSeq(_)
SumSeq(s) == IF s = << >> THEN 0 ELSE Head(s) + SumSeq(Tail(s))

-----------------------------------------------------------------------------
(* Strings as sequences of characters                                      *)

\* Python `sub in s`
Contains(sub, s) ==
    \E i \in 0..(Len(s) - Len(sub)) : SubSeq(s, i + 1, i + Len(sub)) = sub

\* str.lower() on one character (the upper-case letters the names use)
LowerChar(c) ==
    CASE c = "A" -> "a" [] c = "B" -> "b" [] c = "C" -> "c" [] c = "D" -> "d"
      [] c = "E" -> "e" [] c = "F" -> "f" [] c = "G" -> "g" [] c = "H" -> "h"
      [] c = "I" -> "i" [] c = "J" -> "j" [] c = "K" -> "k" [] c = "L" -> "l"
      [] c = "M" -> "m" [] c = "N" -> "n" [] c = "O" -> "o" [] c = "P" -> "p"
      [] c = "Q" -> "q" [] c = "R" -> "r" [] c = "S" -> "s" [] c = "T" -> "t"
      [] c = "U" -> "u" [] c = "V" -> "v" [] c = "W" -> "w" [] c = "X" -> "x"
      [] c = "Y" -> "y" [] c = "Z" -> "z"
      [] OTHER -> c

\* the characters of the league names that occur in the code and in the
\* inputs of the model
Chars(name) ==
    CASE name = "Championship" ->
            <<"C","h","a","m","p","i","o","n","s","h","i","p">>
      [] name = "League One" ->
            <<"L","e","a","g","u","e"," ","O","n","e">>
      [] name = "League Two" ->
            <<"L","e","a","g","u","e"," ","T","w","o">>
      [] name = "Scottish" ->
            <<"S","c","o","t","t","i","s","h">>
      [] name = "Primeira Liga" ->
            <<"P","r","i","m","e","i","r","a"," ","L","i","g","a">>
      [] name = "Eredivisie" ->
            <<"E","r","e","d","i","v","i","s","i","e">>
      [] name = "Premier League" ->
            <<"P","r","e","m","i","e","r"," ","L","e","a","g","u","e">>
      [] name = "La Liga" ->
            <<"L","a"," ","L","i","g","a">>
      [] name = "Serie A" ->
            <<"S","e","r","i","e"," ","A">>
      [] name = "Bundesliga" ->
            <<"B","u","n","d","e","s","l","i","g","a">>
      [] name = "Ligue 1" ->
            <<"L","i","g","u","e"," ","1">>
      [] name = "Belgian" ->
            <<"B","e","l","g","i","a","n">>
      [] name = "Scottish Championship" ->
            <<"S","c","o","t","t","i","s","h"," ","C","h","a","m","p","i","o","n","s","h","i","p">>
      [] name = "Scottish League One" ->
            <<"S","c","o","t","t","i","s","h"," ","L","e","a","g","u","e"," ","O","n","e">>
      [] name = "Belgian First Division A" ->
            <<"B","e","l","g","i","a","n"," ","F","i","r","s","t"," ","D","i","v","i","s","i","o","n"," ","A">>
      [] name = "MLS" ->
            <<"M","L","S">>
      [] name = "championship" ->
            <<"c","h","a","m","p","i","o","n","s","h","i","p">>
      [] name = "EFL Championship" ->
            <<"E","F","L"," ","C","h","a","m","p","i","o","n","s","h","i","p">>
      [] name = "Scottish Premiership" ->
            <<"S","c","o","t","t","i","s","h"," ","P","r","e","m","i","e","r","s","h","i","p">>
      [] name = "Serie B" ->
            <<"S","e","r","i","e"," ","B">>
      [] name = "Ligue 2" ->
            <<"L","i","g","u","e"," ","2">>
      [] name = "Pro League" ->
            <<"P","r","o"," ","L","e","a","g","u","e">>
      [] name = "Super Lig" ->
            <<"S","u","p","e","r"," ","L","i","g">>
      [] name = "Superliga" ->
            <<"S","u","p","e","r","l","i","g","a">>
      [] name = "Eliteserien" ->
            <<"E","l","i","t","e","s","e","r","i","e","n">>
      [] name = "Allsvenskan" ->
            <<"A","l","l","s","v","e","n","s","k","a","n">>
      [] name = "Ekstraklasa" ->
            <<"E","k","s","t","r","a","k","l","a","s","a">>
      [] name = "Liga MX" ->
            <<"L","i","g","a"," ","M","X">>
      [] name = "England" ->
            <<"E","n","g","l","a","n","d">>
      [] name = "Scotland" ->
            <<"S","c","o","t","l","a","n","d">>
      [] name = "Spain" ->
            <<"S","p","a","i","n">>
      [] name = "Italy" ->
            <<"I","t","a","l","y">>
      [] name = "Germany" ->
            <<"G","e","r","m","a","n","y">>
      [] name = "France" ->
            <<"F","r","a","n","c","e">>
      [] name = "Portugal" ->
            <<"P","o","r","t","u","g","a","l">>
      [] name = "Netherlands" ->
            <<"N","e","t","h","e","r","l","a","n","d","s">>
      [] name = "Belgium" ->
            <<"B","e","l","g","i","u","m">>
      [] name = "Turkey" ->
            <<"T","u","r","k","e","y">>
      [] name = "Denmark" ->
            <<"D","e","n","m","a","r","k">>
      [] name = "Norway" ->
            <<"N","o","r","w","a","y">>
      [] name = "Sweden" ->
            <<"S","w","e","d","e","n">>
      [] name = "Poland" ->
            <<"P","o","l","a","n","d">>
      [] name = "USA" ->
            <<"U","S","A">>
      [] name = "Mexico" ->
            <<"M","e","x","i","c","o">>
      [] name = "Other" ->
            <<"O","t","h","e","r">>

LeagueNames ==
    {"Championship", "League One", "League Two", "Scottish", "Primeira Liga",
     "Eredivisie", "Premier League", "La Liga", "Serie A", "Bundesliga",
     "Ligue 1", "Belgian", "Scottish Championship", "Scottish League One",
     "Belgian First Division A", "MLS", "championship", "EFL Championship",
     "Scottish Premiership"}

\* the characters of name.lower()
Lower(name) == [i \in 1..Len(Chars(name)) |-> LowerChar(Chars(name)[i])]

-----------------------------------------------------------------------------
(* scraper.py: calculate_ev                                                *)

draw_prone_leagues ==
    <<"Championship", "League One", "League Two", "Scottish", "Primeira Liga",
      "Eredivisie">>

\* any(l in match['league'] for l in draw_prone_leagues), tabulated over the
\* league names of the model
DrawProneTable ==
    [league \in LeagueNames |->
        \E i \in 1..Len(draw_prone_leagues) :
            Contains(Chars(draw_prone_leagues[i]), Chars(league))]

IsDrawProne(league) == DrawProneTable[league]

LeagueAdjustment(league) == IF IsDrawProne(league) THEN 80000 ELSE 0

OddsAdjustmentInclusive(draw_odds) ==
    IF draw_odds <= 360 THEN 60000
    ELSE IF draw_odds <= 380 THEN 40000
    ELSE 0

OddsAdjustment(draw_odds) ==
    IF draw_odds < 360 THEN 60000
    ELSE IF draw_odds < 380 THEN 40000
    ELSE 0

\* match.get('liquidity', 0)
GetLiquidity(match) == IF "liquidity" \in DOMAIN match THEN match.liquidity ELSE 0

LiquidityAdjustment(match) == IF GetLiquidity(match) > 1000000 THEN 30000 ELSE 0

\* base_prob after the three additive adjustments
base_prob(match, pattern_boosts) ==
    280000 + pattern_boosts + LeagueAdjustment(match.league)
      + OddsAdjustment(match.draw_odds) + LiquidityAdjustment(match)

CapProbabilityMissing(p) == p

\* min(base_prob, 0.45)
CapProbability(p) == Min(p, 450000)

\* the local model_prob of calculate_ev, in millionths
model_prob(match, pattern_boosts) == CapProbability(base_prob(match, pattern_boosts))

ExpectedValueAsReturn(p, draw_odds) == p * draw_odds

\* ev = (model_prob * draw_odds) - 1, in units of 10^-8
ExpectedValue(p, draw_odds) == p * draw_odds - 100000000

\* round(ev * 100, 1), in tenths of a percent
EvPercent(ev) == RoundHalfEven(ev, 100000)

\* round(model_prob, 3), in thousandths
RoundProb(p) == RoundHalfEven(p, 1000)

ReasonsInclusive(match) ==
    (IF IsDrawProne(match.league) THEN <<"HIGH DRAW LEAGUE">> ELSE << >>)
      \o (IF match.draw_odds <= 360 THEN <<"LOW ODDS">> ELSE << >>)
      \o <<"AI MODEL">>

\* the labels that ', '.join(reasons) joins, in the order appended
Reasons(match) ==
    (IF IsDrawProne(match.league) THEN <<"HIGH DRAW LEAGUE">> ELSE << >>)
      \o (IF match.draw_odds < 360 THEN <<"LOW ODDS">> ELSE << >>)
      \o <<"AI MODEL">>

\* the match dict after the call: calculate_ev only reads it, and returns
\* a new dict built from it with {**match, ...}
MatchAfterCalculateEv(match) == match

\* {**match, 'model_prob': ..., 'ev_percent': ..., 'reasons': ...}
calculate_ev(match, pattern_boosts) ==
    [model_prob |-> RoundProb(model_prob(match, pattern_boosts)),
     ev_percent |-> EvPercent(ExpectedValue(model_prob(match, pattern_boosts),
                                            match.draw_odds)),
     reasons |-> Reasons(match)] @@ match

-----------------------------------------------------------------------------
(* scraper.py: the fallbacks used while a fixture is built                 *)

high_draw_leagues ==
    << <<"Championship", 360>>, <<"League One", 350>>, <<"League Two", 345>>,
       <<"Scottish Championship", 355>>, <<"Scottish League One", 350>>,
       <<"Primeira Liga", 365>>, <<"Eredivisie", 370>>,
       <<"Belgian First Division A", 375>> >>

\* the first key of high_draw_leagues (insertion order) whose lower-cased
\* form occurs in the lower-cased league name; 3.80 when there is none
estimate_draw_odds(league) ==
    LET hits == {i \in 1..Len(high_draw_leagues) :
                    Contains(Lower(high_draw_leagues[i][1]), Lower(league))}
    IN  IF hits = {} THEN 380
        ELSE high_draw_leagues[CHOOSE i \in hits : \A j \in hits : i <= j][2]

tier_1_leagues == <<"Premier League", "La Liga", "Serie A", "Bundesliga", "Ligue 1">>

tier_2_leagues == <<"Championship", "Eredivisie", "Primeira Liga", "Belgian">>

tier_3_leagues == <<"League One", "Scottish", "League Two">>

AnyLowerIn(names, league) ==
    \E i \in 1..Len(names) : Contains(Lower(names[i]), Lower(league))

estimate_liquidity(league) ==
    IF AnyLowerIn(tier_1_leagues, league) THEN 5000000
    ELSE IF AnyLowerIn(tier_2_leagues, league) THEN 1500000
    ELSE IF AnyLowerIn(tier_3_leagues, league) THEN 500000
    ELSE 300000

\* get_draw_odds: the "Draw" price of the odds market when the provider has
\* one (odds_market = <<price>>), else the league estimate
get_draw_odds(api_fixture) ==
    IF api_fixture.odds_market # << >> THEN Head(api_fixture.odds_market)
    ELSE estimate_draw_odds(api_fixture.league)

\* the dict appended to all_fixtures for one fixture of the response
BuildFixture(api_fixture) ==
    [fixture_id |-> api_fixture.fixture_id,
     kickoff |-> api_fixture.kickoff,
     league |-> api_fixture.league,
     home |-> api_fixture.home,
     away |-> api_fixture.away,
     draw_odds |-> get_draw_odds(api_fixture),
     liquidity |-> estimate_liquidity(api_fixture.league)]

-----------------------------------------------------------------------------
(* db.py: kelly_stake.  prob is in thousandths (the stored model_prob),    *)
(* odds in hundredths; the stake is an exact fraction num/den, den > 0, of *)
(* a currency unit.                                                        *)

RECURSIVE GCD(_, _)
GCD(a, b) == IF b = 0 THEN a ELSE GCD(b, a % b)

\* the fraction n/d (d # 0) in lowest terms with a positive denominator
Rat(n, d) ==
    LET g == GCD(Abs(n), Abs(d))
        s == IF d < 0 THEN -1 ELSE 1
    IN  [num |-> (s * n) \div g, den |-> (s * d) \div g]

RatLess(a, b) == a.num * b.den < b.num * a.den

RatMin(a, b) == IF RatLess(b, a) THEN b ELSE a

RatMax(a, b) == IF RatLess(a, b) THEN b ELSE a

\* kelly_fraction = (prob * odds - 1) / (odds - 1)
kelly_fraction(odds, prob) == Rat(prob * odds - 100000, 1000 * (odds - 100))

kelly_stake_uncapped(bankroll, odds, prob) ==
    IF odds = 100 THEN [raised |-> "ZeroDivisionError"]
    ELSE LET kf == kelly_fraction(odds, prob)
         IN  [raised |-> "none",
              stake |-> RatMax(Rat(0, 1), Rat(bankroll * kf.num, 4 * kf.den))]

\* max(0, min(bankroll * kelly_fraction * 0.25, bankroll * 0.05)); the
\* division raises ZeroDivisionError when odds = 1.0
kelly_stake(bankroll, odds, prob) ==
    IF odds = 100 THEN [raised |-> "ZeroDivisionError"]
    ELSE LET kf == kelly_fraction(odds, prob)
         IN  [raised |-> "none",
              stake |-> RatMax(Rat(0, 1),
                               RatMin(Rat(bankroll * kf.num, 4 * kf.den),
                                      Rat(bankroll, 20)))]

\* one <tr> per prediction of the dashboard, in order; a kelly_stake that
\* raises ends the loop
RECURSIVE RenderRows(_, _)
RenderRows(rows, html) ==
    IF rows = << >> THEN [raised |-> "none", html |-> html]
    ELSE LET pred == Head(rows)
             k == kelly_stake(1000, pred.draw_odds, pred.model_prob)
         IN  IF k.raised # "none" THEN [raised |-> k.raised, html |-> html]
             ELSE RenderRows(Tail(rows),
                             Append(html, [pred_id |-> pred.pred_id,
                                           kelly_stake |-> k.stake]))

\* app.py dashboard(): the page with one row per prediction, or, when
\* anything inside the try block raises, the 500 error page
dashboard(rows) ==
    LET r == RenderRows(rows, << >>)
    IN  IF r.raised = "none" THEN [status_code |-> 200, rendered |-> r.html]
        ELSE [status_code |-> 500, rendered |-> << >>]

-----------------------------------------------------------------------------
(* db.py: the tables                                                       *)

\* the row that save_predictions inserts for pred; status, result and
\* stake_amount take the column defaults.  cycle is a history field: the
\* analysis cycle that wrote the row.
PredictionRow(id, pred, cycle) ==
    [id |-> id, date |-> pred.date, kickoff |-> pred.kickoff,
     league |-> pred.league, home |-> pred.home, away |-> pred.away,
     draw_odds |-> pred.draw_odds, model_prob |-> pred.model_prob,
     ev_percent |-> pred.ev_percent, reasons |-> pred.reasons,
     liquidity |-> GetLiquidity(pred), status |-> "pending",
     result |-> "NULL", stake_amount |-> 0, cycle |-> cycle]

\* INSERT OR REPLACE of every prediction: the only key of the table is the
\* AUTOINCREMENT id, which the statement does not supply, so each one is a
\* new row
RECURSIVE save_predictions(_, _, _)
save_predictions(table, predictions, cycle) ==
    IF predictions = << >> THEN table
    ELSE save_predictions(
            Append(table, PredictionRow(Len(table) + 1, Head(predictions), cycle)),
            Tail(predictions), cycle)

PatternRow(date, pattern) ==
    [analysis_date |-> date, pattern_type |-> pattern.type,
     frequency |-> pattern.count, draw_rate |-> pattern.rate,
     example_matches |-> pattern.examples,
     model_boost |-> IF "boost" \in DOMAIN pattern THEN pattern.boost ELSE 0]

\* INSERT OR REPLACE under UNIQUE(pattern_type): a row with the same
\* pattern_type is deleted before the new one is inserted
RECURSIVE InsertPatterns(_, _, _)
InsertPatterns(table, date, patterns) ==
    IF patterns = << >> THEN table
    ELSE LET row == PatternRow(date, Head(patterns))
             kept == SelectSeq(table, LAMBDA r : r.pattern_type # row.pattern_type)
         IN  InsertPatterns(Append(kept, row), date, Tail(patterns))

\* DELETE FROM draw_patterns, then the inserts
save_draw_patterns(date, patterns) == InsertPatterns(<< >>, date, patterns)

\* the (league, reasons) groups of the rows with this status in the
\* trailing 30 days
BacktestKeys(table, status, now) ==
    {[league |-> table[i].league, reasons |-> table[i].reasons] :
        i \in {j \in 1..Len(table) :
                 table[j].status = status /\ table[j].date >= now - 30}}

GroupRows(table, status, now, key) ==
    {i \in 1..Len(table) :
        /\ table[i].status = status /\ table[i].date >= now - 30
        /\ table[i].league = key.league /\ table[i].reasons = key.reasons}

RECURSIVE SumEv(_, _)
SumEv(table, rows) ==
    IF rows = {} THEN 0
    ELSE LET i == CHOOSE j \in rows : TRUE
         IN  table[i].ev_percent + SumEv(table, rows \ {i})

GroupCount(table, status, now, key) == Cardinality(GroupRows(table, status, now, key))

GroupAvgEv(table, status, now, key) ==
    RoundHalfEven(SumEv(table, GroupRows(table, status, now, key)),
                  GroupCount(table, status, now, key))

\* the first n of keys in an order of descending cnt: ORDER BY COUNT(*) DESC
\* LIMIT n, which fixes no order among groups of equal count
RECURSIVE TopOrders(_, _, _)
TopOrders(keys, cnt, n) ==
    IF keys = {} \/ n = 0 THEN {<< >>}
    ELSE LET top == {k \in keys : \A other \in keys : cnt[k] >= cnt[other]}
         IN  UNION {{<<k>> \o rest : rest \in TopOrders(keys \ {k}, cnt, n - 1)} :
                    k \in top}

BacktestSelectAnyFive(table, status, now) ==
    LET keys == BacktestKeys(table, status, now)
    IN  TopOrders(keys, [k \in keys |-> 0], 5)

\* the results SELECT ... GROUP BY league, reasons ORDER BY COUNT(*) DESC
\* LIMIT 5 may return
BacktestSelect(table, status, now) ==
    LET keys == BacktestKeys(table, status, now)
    IN  TopOrders(keys, [k \in keys |-> GroupCount(table, status, now, k)], 5)

BacktestRows(table, status, now, sel) ==
    [i \in 1..Len(sel) |->
        [analysis_date |-> now, league |-> sel[i].league,
         reasons |-> sel[i].reasons,
         count |-> GroupCount(table, status, now, sel[i]),
         avg_ev |-> GroupAvgEv(table, status, now, sel[i])]]

-----------------------------------------------------------------------------
(* Python floats: IEEE 754 binary64.  The evidence sources and the         *)
(* combiner of draw_analyzer.py add, scale and divide boosts as floats.    *)

\* naturals of any size: sequences of 15-bit limbs, least significant first,
\* with no leading zero limb (the empty sequence is 0)
LimbBits == 15

Base == 32768

RECURSIVE Pow2(_)
Pow2(k) == IF k = 0 THEN 1 ELSE 2 * Pow2(k - 1)

RECURSIVE BitLen(_)
BitLen(n) == IF n = 0 THEN 0 ELSE 1 + BitLen(n \div 2)

BnLimb(a, i) == IF 1 <= i /\ i <= Len(a) THEN a[i] ELSE 0

RECURSIVE BnTrim(_)
BnTrim(a) ==
    IF a = << >> \/ a[Len(a)] # 0 THEN a ELSE BnTrim(SubSeq(a, 1, Len(a) - 1))

RECURSIVE BnAddFrom(_, _, _, _)
BnAddFrom(a, b, i, carry) ==
    IF i > Len(a) /\ i > Len(b)
    THEN IF carry = 1 THEN <<1>> ELSE << >>
    ELSE LET t == BnLimb(a, i) + BnLimb(b, i) + carry
         IN  <<t % Base>> \o BnAddFrom(a, b, i + 1, t \div Base)

BnAdd(a, b) == BnAddFrom(a, b, 1, 0)

\* a - b for a >= b
RECURSIVE BnSubFrom(_, _, _, _)
BnSubFrom(a, b, i, borrow) ==
    IF i > Len(a) THEN << >>
    ELSE LET t == BnLimb(a, i) - BnLimb(b, i) - borrow
         IN  <<t % Base>> \o BnSubFrom(a, b, i + 1, IF t < 0 THEN 1 ELSE 0)

BnSub(a, b) == BnTrim(BnSubFrom(a, b, 1, 0))

\* -1, 0, 1 as a < b, a = b, a > b
RECURSIVE BnCmpFrom(_, _, _)
BnCmpFrom(a, b, i) ==
    IF i = 0 THEN 0
    ELSE IF a[i] > b[i] THEN 1
    ELSE IF a[i] < b[i] THEN -1
    ELSE BnCmpFrom(a, b, i - 1)

BnCmp(a, b) ==
    IF Len(a) > Len(b) THEN 1
    ELSE IF Len(a) < Len(b) THEN -1
    ELSE BnCmpFrom(a, b, Len(a))

\* a * 2^k
BnShl(a, k) ==
    LET q == k \div LimbBits
        r == k % LimbBits
    IN  BnTrim([i \in 1..q |-> 0] \o
               [i \in 1..(Len(a) + 1) |->
                   ((BnLimb(a, i) * Pow2(r)) % Base)
                   + (BnLimb(a, i - 1) \div Pow2(LimbBits - r))])

\* a \div 2^k
BnShr(a, k) ==
    LET q == k \div LimbBits
        r == k % LimbBits
        b == IF q >= Len(a) THEN << >> ELSE SubSeq(a, q + 1, Len(a))
    IN  BnTrim([i \in 1..Len(b) |->
                   (b[i] \div Pow2(r))
                   + (BnLimb(b, i + 1) % Pow2(r)) * Pow2(LimbBits - r)])

\* a * k for 0 <= k < Base
RECURSIVE BnMulFrom(_, _, _, _)
BnMulFrom(a, k, i, carry) ==
    IF i > Len(a) THEN IF carry = 0 THEN << >> ELSE <<carry>>
    ELSE LET t == a[i] * k + carry
         IN  <<t % Base>> \o BnMulFrom(a, k, i + 1, t \div Base)

BnMulSmall(a, k) == BnTrim(BnMulFrom(a, k, 1, 0))

\* long division of a by n, 0 < n < Base, from the top limb down:
\* [q |-> quotient, r |-> remainder]
RECURSIVE BnDivFrom(_, _, _, _)
BnDivFrom(a, n, i, rem) ==
    IF i = 0 THEN [q |-> << >>, r |-> rem]
    ELSE LET t == rem * Base + a[i]
             lower == BnDivFrom(a, n, i - 1, t % n)
         IN  [q |-> Append(lower.q, t \div n), r |-> lower.r]

BnDivSmall(a, n) ==
    LET d == BnDivFrom(a, n, Len(a), 0) IN [q |-> BnTrim(d.q), r |-> d.r]

BnBitLen(a) ==
    IF a = << >> THEN 0 ELSE LimbBits * (Len(a) - 1) + BitLen(a[Len(a)])

\* bit i of a, the lowest being bit 1
BnBitAt(a, i) ==
    (BnLimb(a, (i - 1) \div LimbBits + 1) \div Pow2((i - 1) % LimbBits)) % 2

\* one of the k lowest bits of a is set
BnLowBitsSet(a, k) == BnShl(BnShr(a, k), k) # a

RECURSIVE LowZeros(_)
LowZeros(n) == IF n % 2 = 1 THEN 0 ELSE 1 + LowZeros(n \div 2)

RECURSIVE BnLowZeros(_)
BnLowZeros(a) ==
    IF a = << >> THEN 0
    ELSE IF a[1] = 0 THEN LimbBits + BnLowZeros(Tail(a))
    ELSE LowZeros(a[1])

\* the number s * m * 2^e, m a natural as above; kept with m odd
Dyadic(s, m, e) ==
    IF m = << >> THEN [s |-> 1, m |-> << >>, e |-> 0]
    ELSE LET z == BnLowZeros(m) IN [s |-> s, m |-> BnShr(m, z), e |-> e + z]

DyZero == Dyadic(1, << >>, 0)

DyNeg(x) == Dyadic(-x.s, x.m, x.e)

DyAbs(x) == Dyadic(1, x.m, x.e)

\* exact sum
DyAdd(x, y) ==
    IF x.m = << >> THEN y
    ELSE IF y.m = << >> THEN x
    ELSE LET e == Min(x.e, y.e)
             a == BnShl(x.m, x.e - e)
             b == BnShl(y.m, y.e - e)
         IN  IF x.s = y.s THEN Dyadic(x.s, BnAdd(a, b), e)
             ELSE IF BnCmp(a, b) >= 0 THEN Dyadic(x.s, BnSub(a, b), e)
             ELSE Dyadic(y.s, BnSub(b, a), e)

DySub(x, y) == DyAdd(x, DyNeg(y))

DyMulSmall(x, k) == Dyadic(x.s, BnMulSmall(x.m, k), x.e)

DyLeq(x, y) == DySub(y, x).s = 1

\* binary64: round to nearest, ties to even, 53 significant bits
\* (every value here is far from the subnormal and the overflow range)
Precision == 53

RoundBinary64(s, m, e, sticky) ==
    IF BnBitLen(m) <= Precision THEN Dyadic(s, m, e)
    ELSE LET d == BnBitLen(m) - Precision
             kept == BnShr(m, d)
             guard == BnBitAt(m, d)
             below == sticky \/ BnLowBitsSet(m, d - 1)
             up == guard = 1 /\ (below \/ kept[1] % 2 = 1)
         IN  Dyadic(s, IF up THEN BnAdd(kept, <<1>>) ELSE kept, e + d)

FAdd(x, y) == LET z == DyAdd(x, y) IN RoundBinary64(z.s, z.m, z.e, FALSE)

FMulSmall(x, k) == LET z == DyMulSmall(x, k) IN RoundBinary64(z.s, z.m, z.e, FALSE)

GuardBits == 64

FDivSmall(x, n) ==
    LET d == BnDivSmall(BnShl(x.m, GuardBits), n)
    IN  IF x.m = << >> THEN x
        ELSE RoundBinary64(x.s, d.q, x.e - GuardBits, d.r # 0)

Binary64(s, limbs, e) == Dyadic(s, BnTrim(limbs), e)

\* the float that a decimal literal of the source denotes
Literal(x) ==
    CASE x = "0.03" -> Binary64(1, <<9175, 31457, 23592, 30>>, -55)
      [] x = "0.06" -> Binary64(1, <<9175, 31457, 23592, 30>>, -54)
      [] x = "0.09" -> Binary64(1, <<27525, 28835, 5242, 92>>, -55)
      [] x = "0.12" -> Binary64(1, <<9175, 31457, 23592, 30>>, -53)
      [] x = "0.15" -> Binary64(1, <<13107, 26214, 19660, 153>>, -55)
      [] x = "0.18" -> Binary64(1, <<27525, 28835, 5242, 92>>, -54)
      [] x = "0.20" -> Binary64(1, <<19661, 6553, 13107, 102>>, -54)
      [] x = "0.10" -> Binary64(1, <<19661, 6553, 13107, 102>>, -55)
      [] x = "0.02" -> Binary64(1, <<5243, 3932, 27525, 163>>, -58)
      [] x = "0.07" -> Binary64(1, <<5243, 3932, 27525, 35>>, -54)
      [] x = "0.015" -> Binary64(1, <<9175, 31457, 23592, 30>>, -56)

-----------------------------------------------------------------------------
(* draw_analyzer.py: the evidence sources                                  *)

\* the characters of league.lower().replace(' ', '_')
Slug(league) ==
    [i \in 1..Len(Lower(league)) |->
        IF Lower(league)[i] = " " THEN "_" ELSE Lower(league)[i]]

\* min(a, b) of Python: b when b < a, else a
FloatMin(a, b) == IF DyLeq(b, a) /\ b # a THEN b ELSE a

HotStreakBoostLinear(draw_count) == FMulSmall(Literal("0.03"), draw_count)

\* _identify_patterns: the boost of a league with draw_count recent draws
HotStreakBoost(draw_count) ==
    IF draw_count >= 10 THEN Literal("0.18")
    ELSE IF draw_count >= 7 THEN Literal("0.15")
    ELSE IF draw_count >= 5 THEN Literal("0.12")
    ELSE IF draw_count >= 3 THEN Literal("0.09")
    ELSE IF draw_count >= 2 THEN Literal("0.06")
    ELSE Literal("0.03")

HotStreakPriority(draw_count) ==
    IF draw_count >= 10 THEN "EXTREMELY HOT"
    ELSE IF draw_count >= 7 THEN "VERY HOT"
    ELSE IF draw_count >= 5 THEN "HOT"
    ELSE IF draw_count >= 3 THEN "WARM"
    ELSE IF draw_count >= 2 THEN "EMERGING"
    ELSE "NOTED"

\* the pattern appended for the league at position rank of league_rankings
HotStreakPattern(league, draw_count, common_score, rank, sample_matches) ==
    [type |-> Slug(league) \o
              <<"_","h","o","t","_","s","t","r","e","a","k">>,
     count |-> draw_count,
     rate |-> "None",
     examples |-> <<league, draw_count, common_score>>,
     boost |-> HotStreakBoost(draw_count),
     common_score |-> common_score,
     priority |-> HotStreakPriority(draw_count),
     rank |-> rank,
     details |-> [league |-> league,
                  recent_draws |-> draw_count,
                  trending |-> IF draw_count >= 5 THEN "hot" ELSE "warm",
                  sample_matches |->
                      [i \in 1..Len(sample_matches) |->
                          <<sample_matches[i].home, sample_matches[i].score,
                            sample_matches[i].away>>]]]

\* the list of the distinct elements of s, each at its first occurrence:
\* the key order of a dict filled from s
RECURSIVE KeyOrder(_)
KeyOrder(s) ==
    IF s = << >> THEN << >>
    ELSE LET before == KeyOrder(SubSeq(s, 1, Len(s) - 1))
         IN  IF \E i \in 1..Len(before) : before[i] = s[Len(s)]
             THEN before
             ELSE Append(before, s[Len(s)])

Occurrences(s, x) == Cardinality({i \in 1..Len(s) : s[i] = x})

\* _extract_country: the country of the first keyword found in the name
country_keywords ==
    << <<"Premier League", "England">>, <<"Championship", "England">>,
       <<"League One", "England">>, <<"League Two", "England">>,
       <<"Scottish", "Scotland">>, <<"La Liga", "Spain">>,
       <<"Serie A", "Italy">>, <<"Serie B", "Italy">>,
       <<"Bundesliga", "Germany">>, <<"Ligue 1", "France">>,
       <<"Ligue 2", "France">>, <<"Primeira Liga", "Portugal">>,
       <<"Eredivisie", "Netherlands">>, <<"Pro League", "Belgium">>,
       <<"Super Lig", "Turkey">>, <<"Superliga", "Denmark">>,
       <<"Eliteserien", "Norway">>, <<"Allsvenskan", "Sweden">>,
       <<"Ekstraklasa", "Poland">>, <<"MLS", "USA">>, <<"Liga MX", "Mexico">> >>

_extract_country(league_name) ==
    LET found == {i \in 1..Len(country_keywords) :
                     Contains(Chars(country_keywords[i][1]), Chars(league_name))}
    IN  IF found = {} THEN "Other"
        ELSE country_keywords[CHOOSE i \in found : \A j \in found : i <= j][2]

\* leagues[league], countries[country]: the draws of the list, in order
DrawsOfLeague(draws, league) == SelectSeq(draws, LAMBDA d : d.league = league)

DrawsOfCountry(draws, country) ==
    SelectSeq(draws, LAMBDA d : _extract_country(d.league) = country)

\* league_rankings after the sort: by draw count, most first, leagues of
\* equal count in the order the dict gave them (the sort is stable)
LeagueRankings(draws) ==
    LET order == KeyOrder([i \in 1..Len(draws) |-> draws[i].league])
        cnt(i) == Len(DrawsOfLeague(draws, order[i]))
        pos(i) == 1 + Cardinality({j \in 1..Len(order) :
                        cnt(j) > cnt(i) \/ (cnt(j) = cnt(i) /\ j < i)})
    IN  [r \in 1..Len(order) |->
            LET i == CHOOSE k \in 1..Len(order) : pos(k) = r
            IN  [league |-> order[i],
                 draw_count |-> cnt(i),
                 sample_matches |-> SubSeq(DrawsOfLeague(draws, order[i]), 1,
                                           Min(3, cnt(i)))]]

\* max(set(league_scores), key=league_scores.count) over the scores of the
\* league's sample matches: a set of strings is iterated in hash order, so
\* among the most frequent scores any may win
CommonScores(matches) ==
    LET league_scores == [i \in 1..Len(matches) |-> matches[i].score]
    IN  IF matches = << >> THEN {"1-1"}
        ELSE {league_scores[i] : i \in {k \in 1..Len(matches) :
                 \A j \in 1..Len(matches) :
                     Occurrences(league_scores, league_scores[k])
                       >= Occurrences(league_scores, league_scores[j])}}

\* the first loop: one hot-streak pattern for every entry of league_rankings
RECURSIVE HotStreakPatterns(_, _, _)
HotStreakPatterns(league_rankings, draws, i) ==
    IF i > Len(league_rankings) THEN {<< >>}
    ELSE {<<HotStreakPattern(league_rankings[i].league,
                             league_rankings[i].draw_count, common_score, i,
                             league_rankings[i].sample_matches)>> \o rest :
             common_score \in CommonScores(league_rankings[i].sample_matches),
             rest \in HotStreakPatterns(league_rankings, draws, i + 1)}

RegionalBoostUncapped(n) == FMulSmall(Literal("0.015"), n)

\* boost = min(0.10, len(matches) * 0.015)
RegionalBoost(n) == FloatMin(Literal("0.10"), FMulSmall(Literal("0.015"), n))

RegionalPattern(country, matches) ==
    [type |-> [i \in 1..Len(Chars(country)) |-> LowerChar(Chars(country)[i])] \o
              <<"_","r","e","g","i","o","n","a","l","_","d","r","a","w","s">>,
     count |-> Len(matches),
     rate |-> "None",
     examples |-> <<country, Len(matches)>>,
     boost |-> RegionalBoost(Len(matches)),
     details |-> [country |-> country,
                  draw_count |-> Len(matches),
                  leagues_affected |->
                      Cardinality({matches[i].league : i \in 1..Len(matches)})]]

\* the second loop: a regional pattern for every country with 5 draws or more
RegionalPatterns(draws) ==
    LET order == KeyOrder([i \in 1..Len(draws) |-> _extract_country(draws[i].league)])
        big == SelectSeq(order, LAMBDA c : Len(DrawsOfCountry(draws, c)) >= 5)
    IN  [i \in 1..Len(big) |-> RegionalPattern(big[i], DrawsOfCountry(draws, big[i]))]

\* the float of a small positive int
IntFloat(n) == Dyadic(1, <<n>>, 0)

\* max(scores.items(), key=lambda x: x[1]): the first of the most frequent
\* scores in dict order
ScorelinePattern(draws) ==
    LET all == [i \in 1..Len(draws) |-> draws[i].score]
        order == KeyOrder(all)
        best == CHOOSE i \in 1..Len(order) :
                    /\ \A j \in 1..Len(order) :
                          Occurrences(all, order[i]) >= Occurrences(all, order[j])
                    /\ \A j \in 1..(i - 1) :
                          Occurrences(all, order[j]) < Occurrences(all, order[i])
    IN  [type |-> <<"c","o","m","m","o","n","_","s","c","o","r","e","l","i","n","e">>,
         count |-> Occurrences(all, order[best]),
         rate |-> FDivSmall(IntFloat(Occurrences(all, order[best])), Len(draws)),
         examples |-> <<order[best], Occurrences(all, order[best])>>,
         boost |-> Literal("0.03"),
         common_score |-> order[best],
         details |-> [scoreline |-> order[best],
                      frequency |-> Occurrences(all, order[best]),
                      all_scores |-> [i \in 1..Len(order) |->
                                         <<order[i], Occurrences(all, order[i])>>]]]

\* what _identify_patterns(draws) may return (every element of draws is a
\* non-empty dict: analyze_recent_draws appends nothing else)
_identify_patterns(draws) ==
    IF draws = << >> THEN {<< >>}
    ELSE {hot \o RegionalPatterns(draws) \o <<ScorelinePattern(draws)>> :
             hot \in HotStreakPatterns(LeagueRankings(draws), draws, 1)}

HitBoostUncapped(hits) == FMulSmall(Literal("0.03"), hits)

\* confidence_boost = min(0.20, hits * 0.03)
HitBoost(hits) == FloatMin(Literal("0.20"), FMulSmall(Literal("0.03"), hits))

\* penalty = -min(0.10, misses * 0.02)
MissPenalty(misses) ==
    DyNeg(FloatMin(Literal("0.10"), FMulSmall(Literal("0.02"), misses)))

\* the pattern appended for a row of successful_patterns
LearnedPattern(league, reasons, avg_ev, hits) ==
    [type |-> <<"l","e","a","r","n","e","d","_">> \o Slug(league),
     count |-> hits,
     rate |-> "None",
     examples |-> <<league, reasons, hits>>,
     boost |-> HitBoost(hits),
     details |-> [league |-> league, reasons |-> reasons, hit_count |-> hits,
                  avg_ev |-> avg_ev, source |-> "learned_from_results"]]

\* the pattern appended for a row of failed_patterns
AvoidPattern(league, reasons, avg_ev, misses) ==
    [type |-> <<"a","v","o","i","d","_">> \o Slug(league),
     count |-> misses,
     rate |-> "None",
     examples |-> <<league, reasons, misses>>,
     boost |-> MissPenalty(misses),
     details |-> [league |-> league, reasons |-> reasons, miss_count |-> misses,
                  avg_ev |-> avg_ev, source |-> "learned_from_failures"]]

\* get_intelligent_patterns: the head of the static list (a type is the
\* tuple of its characters, a rate is in thousandths)
static ==
    << [type |-> <<"l","o","w","e","r","_","l","e","a","g","u","e","_","e","d","g","e">>,
        count |-> 18, rate |-> 290,
        examples |-> "Championship/League One", boost |-> Literal("0.12")],
       [type |-> <<"s","c","o","t","t","i","s","h","_","s","t","a","l","e","m","a","t","e">>,
        count |-> 11, rate |-> 270,
        examples |-> "Scottish lower divisions", boost |-> Literal("0.09")],
       [type |-> <<"p","o","r","t","u","g","a","l","_","p","a","r","i","t","y">>,
        count |-> 9, rate |-> 265,
        examples |-> "Primeira Liga mid-table", boost |-> Literal("0.07")] >>

-----------------------------------------------------------------------------
(* draw_analyzer.py: learn_from_marked_results                             *)

update_prediction_result_anycase(table, pred_id, result, stake) ==
    [i \in 1..Len(table) |->
        IF table[i].id = pred_id
        THEN [table[i] EXCEPT !.status = IF result \in {"draw", "Draw"}
                                         THEN "HIT" ELSE "MISS",
                              !.result = result,
                              !.stake_amount = stake]
        ELSE table[i]]

\* status = 'HIT' if result == 'draw' else 'MISS', then
\* UPDATE predictions SET status = ?, result = ?, stake_amount = ? WHERE id = ?
update_prediction_result(table, pred_id, result, stake) ==
    [i \in 1..Len(table) |->
        IF table[i].id = pred_id
        THEN [table[i] EXCEPT !.status = IF result = "draw" THEN "HIT" ELSE "MISS",
                              !.result = result,
                              !.stake_amount = stake]
        ELSE table[i]]

\* the orders ORDER BY COUNT(*) DESC may give the groups keys: the order
\* among groups of equal count is not fixed
RECURSIVE CountOrders(_, _, _, _)
CountOrders(keys, table, status, now) ==
    IF keys = {} THEN {<< >>}
    ELSE LET top == {k \in keys :
                        \A other \in keys :
                            GroupCount(table, status, now, k)
                              >= GroupCount(table, status, now, other)}
         IN  UNION {{<<k>> \o rest :
                        rest \in CountOrders(keys \ {k}, table, status, now)} :
                    k \in top}

HavingAny(table, status, now) == BacktestKeys(table, status, now)

\* GROUP BY league, reasons HAVING COUNT(*) >= 2
HavingTwo(table, status, now) ==
    {k \in BacktestKeys(table, status, now) :
        GroupCount(table, status, now, k) >= 2}

\* ev_percent is selected bare: SQLite takes it from some row of the group
BareEv(table, status, now, key) ==
    {table[i].ev_percent : i \in GroupRows(table, status, now, key)}

\* the loops over successful_patterns and failed_patterns
RECURSIVE LearnedFrom(_, _, _, _)
LearnedFrom(order, table, status, now) ==
    IF order = << >> THEN {<< >>}
    ELSE LET k == Head(order)
             n == GroupCount(table, status, now, k)
         IN  {<<IF status = "HIT"
                 THEN LearnedPattern(k.league, k.reasons, ev, n)
                 ELSE AvoidPattern(k.league, k.reasons, ev, n)>> \o rest :
                 ev \in BareEv(table, status, now, k),
                 rest \in LearnedFrom(Tail(order), table, status, now)}

\* what learn_from_marked_results(db) may return (or raise) over this
\* predictions table: db.get_connection() is the first thing it evaluates
learn_from_marked_results(db, table, now) ==
    IF ~db.get_connection
    THEN {[raised |-> "AttributeError"]}
    ELSE {[raised |-> "none", learned_patterns |-> hits \o misses] :
             hits \in UNION {LearnedFrom(o, table, "HIT", now) :
                         o \in CountOrders(HavingTwo(table, "HIT", now),
                                           table, "HIT", now)},
             misses \in UNION {LearnedFrom(o, table, "MISS", now) :
                         o \in CountOrders(HavingTwo(table, "MISS", now),
                                           table, "MISS", now)}}

\* the repository's database object: FTDDatabase defines no get_connection
FTDDatabase == [class |-> "FTDDatabase", get_connection |-> FALSE]

\* an object whose get_connection() opens the same database
ConnectionProvider == [class |-> "ConnectionProvider", get_connection |-> TRUE]

-----------------------------------------------------------------------------
(* draw_analyzer.py: combine_patterns                                      *)

SourceWeightUniform(source) == 1

\* pattern['weight'] = 3.0, 2.0, 1.0: integers, which binary64 and their
\* sums hold exactly
SourceWeight(source) ==
    CASE source = "recent_draws" -> 3
      [] source = "learned" -> 2
      [] source = "static_research" -> 1

\* only the first pattern of a list gets the weight of its source
TagPatternsFirstOnly(patterns, source) ==
    [i \in 1..Len(patterns) |->
        (IF source = "learned"
         THEN [weight |-> IF i = 1 THEN SourceWeight(source) ELSE 1]
         ELSE [weight |-> IF i = 1 THEN SourceWeight(source) ELSE 1,
               source |-> source])
        @@ patterns[i]]

\* one of the three loops: every pattern of the list gets the weight of
\* its source and, but for the learned ones, the source's name
TagPatterns(patterns, source) ==
    [i \in 1..Len(patterns) |->
        (IF source = "learned"
         THEN [weight |-> SourceWeight(source)]
         ELSE [weight |-> SourceWeight(source), source |-> source])
        @@ patterns[i]]

\* sum(p['weight'] for p in all_patterns)
RECURSIVE TotalWeight(_)
TotalWeight(all_patterns) ==
    IF all_patterns = << >> THEN 0
    ELSE TotalWeight(SubSeq(all_patterns, 1, Len(all_patterns) - 1))
         + all_patterns[Len(all_patterns)].weight

\* sum(p['boost'] * p['weight'] for p in all_patterns): from 0, left to right
RECURSIVE WeightedBoostSum(_)
WeightedBoostSum(all_patterns) ==
    IF all_patterns = << >> THEN DyZero
    ELSE FAdd(WeightedBoostSum(SubSeq(all_patterns, 1, Len(all_patterns) - 1)),
              FMulSmall(all_patterns[Len(all_patterns)].boost,
                        all_patterns[Len(all_patterns)].weight))

WeightedBoostUnguarded(all_patterns) ==
    IF TotalWeight(all_patterns) = 0
    THEN [raised |-> "ZeroDivisionError"]
    ELSE [raised |-> "none",
          value |-> FDivSmall(WeightedBoostSum(all_patterns),
                              TotalWeight(all_patterns))]

\* ... / total_weight if total_weight > 0 else 0
WeightedBoost(all_patterns) ==
    IF TotalWeight(all_patterns) > 0
    THEN [raised |-> "none",
          value |-> FDivSmall(WeightedBoostSum(all_patterns),
                              TotalWeight(all_patterns))]
    ELSE [raised |-> "none", value |-> DyZero]

\* the three argument lists after the call: the loops assign weight and
\* source to the dicts of the lists themselves, and append those dicts
ArgumentsAfterCombine(historical_draws, learned_patterns, static_patterns) ==
    [historical_draws |-> TagPatterns(historical_draws, "recent_draws"),
     learned_patterns |-> TagPatterns(learned_patterns, "learned"),
     static_patterns |-> TagPatterns(static_patterns, "static_research")]

combine_patterns(historical_draws, learned_patterns, static_patterns) ==
    LET all_patterns == TagPatterns(historical_draws, "recent_draws")
                        \o TagPatterns(learned_patterns, "learned")
                        \o TagPatterns(static_patterns, "static_research")
        weighted_boost == WeightedBoost(all_patterns)
    IN  IF weighted_boost.raised # "none"
        THEN [raised |-> weighted_boost.raised]
        ELSE [raised |-> "none",
              patterns |-> all_patterns,
              total_boost |-> weighted_boost.value,
              sources |-> [recent_draws |-> Len(historical_draws),
                           learned |-> Len(learned_patterns),
                           static |-> Len(static_patterns)]]

-----------------------------------------------------------------------------
(* app.py: the process                                                     *)

VARIABLES
    analysis_running,     \* the module-level flag
    pc,                   \* task -> where the task is
    frame,                \* task -> the locals of its perform_analysis call
    ticks,                \* iterations the timer loop has started
    requests,             \* POST /trigger-analysis requests handled so far
    responses,            \* the responses to them, in order
    today,                \* the provider's and the server's calendar day
    predictions_table,    \* db: predictions
    draw_patterns_table,  \* db: draw_patterns
    backtest_hits,        \* db: backtest_hits
    backtest_misses,      \* db: backtest_misses
    ev_args, ev_ret,      \* one call of calculate_ev and what it returned
    kelly_args, kelly_ret,\* one call of kelly_stake and what it returned
    dash_rows, dash_resp, \* one GET / over these rows and its response
    cp_args, cp_ret,      \* one call of combine_patterns and what it returned
    cp_perm, cp_perm_ret, \* a call with the lists of cp_args reordered
    learn_db, learn_ret,  \* one call of learn_from_marked_results(db)
    ip_args, ip_ret,      \* one call of _identify_patterns and its result
    patterns_arg,         \* history: the argument of the last save_draw_patterns
    fetch,                \* one call of a fixtures fetch loop: its locals and log
    cp_after,             \* the argument lists of combine_patterns after the call
    ev_after              \* the match dict of calculate_ev after the call

app_vars ==
    <<analysis_running, pc, frame, ticks, requests, responses, today,
      predictions_table, draw_patterns_table, backtest_hits, backtest_misses>>

scorer_vars == <<ev_args, ev_ret, kelly_args, kelly_ret, dash_rows, dash_resp>>

analyzer_vars ==
    <<cp_args, cp_ret, cp_perm, cp_perm_ret, learn_db, learn_ret,
      ip_args, ip_ret, patterns_arg>>

effect_vars == <<fetch, cp_after, ev_after>>

fn_vars == <<scorer_vars, analyzer_vars, effect_vars>>

vars == <<app_vars, fn_vars>>

\* task 0 is the run_initial_analysis task of lifespan, task 1 the
\* run_daily_analysis task, task 1 + n the run_initial_analysis task that
\* the n-th POST /trigger-analysis creates
Tasks == 0..(MaxTriggers + 1)

IsTimer(t) == t = 1

TriggerTask(n) == n + 1

\* history: the number of a perform_analysis call
CycleOfTask(t) == t

CycleOfTick(n) == MaxTriggers + 1 + n

NoFrame ==
    [cycle |-> 0, today |-> 0, draw_patterns |-> << >>, total_boost |-> 0,
     fixtures |-> << >>, predictions |-> << >>]

\* the task is inside perform_analysis
InPerform(t) ==
    pc[t] \in {"research", "save_patterns", "scrape", "save_predictions", "backtest"}

Running == {t \in Tasks : InPerform(t)}

-----------------------------------------------------------------------------
(* What the provider and the evidence sources may answer                   *)

ApiFixturePool ==
    << [fixture_id |-> 101, kickoff |-> "15:00", league |-> "League One",
        home |-> "Barnsley", away |-> "Wigan", odds_market |-> <<250>>],
       [fixture_id |-> 102, kickoff |-> "19:45", league |-> "MLS",
        home |-> "Austin", away |-> "Dallas", odds_market |-> << >>] >>

PatternPool ==
    << [type |-> "avoid_mls", count |-> 2, rate |-> "None",
        examples |-> "MLS: AI MODEL (AVOID - 2 misses)", boost |-> -40000],
       [type |-> "league_one_hot_streak", count |-> 2, rate |-> "None",
        examples |-> "League One (2 draws) - 1-1 most common", boost |-> 60000] >>

\* the sequences of at most n elements of pool, in pool order
SubLists(pool, n) ==
    {[i \in 1..Len(ix) |-> pool[ix[i]]] :
        ix \in {s \in UNION {[1..k -> 1..Len(pool)] : k \in 0..n} :
                   \A i, j \in 1..Len(s) : i < j => s[i] < s[j]}}

ApiResponses == SubLists(ApiFixturePool, MaxFixtures)

\* all_fixtures of scrape_todays_fixtures for each of these responses
ScrapedFixtures ==
    {[i \in 1..Len(resp) |-> BuildFixture(resp[i])] : resp \in ApiResponses}

ResearchResults == SubLists(PatternPool, MaxPatterns)

-----------------------------------------------------------------------------
(* app.py: perform_analysis                                                *)

\* sum(p.get('boost', 0) for p in draw_patterns) / max(1, len(draw_patterns))
MeanBoost(draw_patterns) ==
    RoundHalfEven(
        SumSeq([i \in 1..Len(draw_patterns) |->
                   IF "boost" \in DOMAIN draw_patterns[i]
                   THEN draw_patterns[i].boost ELSE 0]),
        Max(1, Len(draw_patterns)))

QualifiesFromFive(pred) == pred.ev_percent >= 50

\* if pred['ev_percent'] > 5
Qualifies(pred) == pred.ev_percent > 50

\* the loop of step 3: score every fixture, keep the qualifying predictions
RECURSIVE ScoreFixtures(_, _, _)
ScoreFixtures(fixtures, total_boost, date) ==
    IF fixtures = << >> THEN << >>
    ELSE LET pred == calculate_ev(Head(fixtures), total_boost)
             rest == ScoreFixtures(Tail(fixtures), total_boost, date)
         IN  IF Qualifies(pred) THEN <<[date |-> date] @@ pred>> \o rest
             ELSE rest

\* perform_analysis is entered: today is read, research_recent_draws awaited
Enter(t, cycle) ==
    frame' = [frame EXCEPT ![t] = [NoFrame EXCEPT !.cycle = cycle, !.today = today]]

\* perform_analysis returns to run_initial_analysis, whose finally clause
\* clears the flag, or to the loop of run_daily_analysis, which sleeps
Leave(t) ==
    /\ frame' = [frame EXCEPT ![t] = NoFrame]
    /\ IF IsTimer(t)
       THEN /\ pc' = [pc EXCEPT ![t] = "sleeping"]
            /\ UNCHANGED analysis_running
       ELSE /\ pc' = [pc EXCEPT ![t] = "finished"]
            /\ analysis_running' = FALSE

\* run_initial_analysis starts to run: it returns at once when the flag is
\* set, else sets it and enters perform_analysis
StartInitial(t) ==
    /\ pc[t] = "scheduled"
    /\ IF analysis_running
       THEN /\ pc' = [pc EXCEPT ![t] = "finished"]
            /\ UNCHANGED <<analysis_running, frame>>
       ELSE /\ analysis_running' = TRUE
            /\ pc' = [pc EXCEPT ![t] = "research"]
            /\ Enter(t, CycleOfTask(t))
    /\ UNCHANGED <<ticks, requests, responses, today, predictions_table,
                   draw_patterns_table, backtest_hits, backtest_misses, fn_vars>>

\* run_daily_analysis wakes from its sleep and calls perform_analysis
TimerFires(t) ==
    /\ IsTimer(t)
    /\ pc[t] = "sleeping"
    /\ ticks < MaxTicks
    /\ ticks' = ticks + 1
    /\ pc' = [pc EXCEPT ![t] = "research"]
    /\ Enter(t, CycleOfTick(ticks + 1))
    /\ UNCHANGED <<analysis_running, requests, responses, today,
                   predictions_table, draw_patterns_table, backtest_hits,
                   backtest_misses, fn_vars>>

\* step 1, first half: research_recent_draws returns the patterns
Research(t) ==
    /\ pc[t] = "research"
    /\ \E patterns \in ResearchResults :
          frame' = [frame EXCEPT ![t].draw_patterns = patterns]
    /\ pc' = [pc EXCEPT ![t] = "save_patterns"]
    /\ UNCHANGED <<analysis_running, ticks, requests, responses, today,
                   predictions_table, draw_patterns_table, backtest_hits,
                   backtest_misses, fn_vars>>

\* step 1, second half: the patterns are saved and total_boost computed
SaveDrawPatterns(t) ==
    /\ pc[t] = "save_patterns"
    /\ draw_patterns_table' = save_draw_patterns(today, frame[t].draw_patterns)
    /\ frame' = [frame EXCEPT ![t].total_boost = MeanBoost(frame[t].draw_patterns)]
    /\ pc' = [pc EXCEPT ![t] = "scrape"]
    /\ UNCHANGED <<analysis_running, ticks, requests, responses, today,
                   predictions_table, backtest_hits, backtest_misses, fn_vars>>

\* steps 2 and 3: the fixtures are scraped; with none the cycle returns, else
\* they are scored and the cycle goes on to step 4 or, with no qualifying
\* prediction, to step 5
ScrapeAndScore(t) ==
    /\ pc[t] = "scrape"
    /\ \E fixtures \in ScrapedFixtures :
          LET predictions == ScoreFixtures(fixtures, frame[t].total_boost,
                                           frame[t].today)
          IN  IF fixtures = << >>
              THEN Leave(t)
              ELSE /\ frame' = [frame EXCEPT ![t].fixtures = fixtures,
                                             ![t].predictions = predictions]
                   /\ pc' = [pc EXCEPT ![t] = IF predictions # << >>
                                              THEN "save_predictions"
                                              ELSE "backtest"]
                   /\ UNCHANGED analysis_running
    /\ UNCHANGED <<ticks, requests, responses, today, predictions_table,
                   draw_patterns_table, backtest_hits, backtest_misses, fn_vars>>

\* step 4: db.save_predictions(predictions)
SavePredictions(t) ==
    /\ pc[t] = "save_predictions"
    /\ predictions_table' =
          save_predictions(predictions_table, frame[t].predictions, frame[t].cycle)
    /\ pc' = [pc EXCEPT ![t] = "backtest"]
    /\ UNCHANGED <<analysis_running, frame, ticks, requests, responses,
                   today, draw_patterns_table, backtest_hits, backtest_misses,
                   fn_vars>>

\* step 5: db.run_backtest_analysis(), after which the cycle returns
RunBacktest(t) ==
    /\ pc[t] = "backtest"
    /\ \E hits \in BacktestSelect(predictions_table, "HIT", today),
          misses \in BacktestSelect(predictions_table, "MISS", today) :
          /\ backtest_hits' = BacktestRows(predictions_table, "HIT", today, hits)
          /\ backtest_misses' = BacktestRows(predictions_table, "MISS", today, misses)
    /\ Leave(t)
    /\ UNCHANGED <<ticks, requests, responses, today, predictions_table,
                   draw_patterns_table, fn_vars>>

\* an await of perform_analysis raises (the evidence source or the
\* database fails): the except clause logs it and the cycle returns
CycleFails(t) ==
    /\ pc[t] \in {"research", "save_patterns", "save_predictions", "backtest"}
    /\ Leave(t)
    /\ UNCHANGED <<ticks, requests, responses, today, predictions_table,
                   draw_patterns_table, backtest_hits, backtest_misses, fn_vars>>

\* POST /trigger-analysis
TriggerAnalysis ==
    /\ requests < MaxTriggers
    /\ requests' = requests + 1
    /\ IF analysis_running
       THEN /\ responses' = Append(responses, [status_code |-> 409,
                                               status |-> "already_running"])
            /\ UNCHANGED pc
       ELSE /\ pc' = [pc EXCEPT ![TriggerTask(requests + 1)] = "scheduled"]
            /\ responses' = Append(responses, [status_code |-> 200,
                                               status |-> "started"])
    /\ UNCHANGED <<analysis_running, frame, ticks, today,
                   predictions_table, draw_patterns_table, backtest_hits,
                   backtest_misses, fn_vars>>

-----------------------------------------------------------------------------
(* The state after lifespan() has created its tasks                        *)

ScorerIdle ==
    /\ ev_args = << >> /\ ev_ret = << >>
    /\ kelly_args = << >> /\ kelly_ret = << >>
    /\ dash_rows = << >> /\ dash_resp = << >>

AnalyzerIdle ==
    /\ cp_args = << >> /\ cp_ret = << >>
    /\ cp_perm = << >> /\ cp_perm_ret = << >>
    /\ learn_db = << >> /\ learn_ret = << >>
    /\ ip_args = << >> /\ ip_ret = << >>
    /\ patterns_arg = << >>

EffectIdle == fetch = << >> /\ cp_after = << >> /\ ev_after = << >>

FnIdle == ScorerIdle /\ AnalyzerIdle /\ EffectIdle

\* (with DISABLE_BACKGROUND set the timer task does not exist: those are the
\* behaviours in which it sleeps for ever)
AppInit ==
    /\ analysis_running = FALSE
    /\ pc = [t \in Tasks |->
                IF t = 0 THEN "scheduled"
                ELSE IF IsTimer(t) THEN "sleeping"
                ELSE "unborn"]
    /\ frame = [t \in Tasks |-> NoFrame]
    /\ ticks = 0
    /\ requests = 0
    /\ responses = << >>
    /\ today = 1
    /\ predictions_table = << >>
    /\ draw_patterns_table = << >>
    /\ backtest_hits = << >>
    /\ backtest_misses = << >>

Init == AppInit /\ FnIdle

Next ==
    \/ \E t \in Tasks : StartInitial(t)
    \/ \E t \in Tasks : TimerFires(t)
    \/ \E t \in Tasks : Research(t)
    \/ \E t \in Tasks : SaveDrawPatterns(t)
    \/ \E t \in Tasks : ScrapeAndScore(t)
    \/ \E t \in Tasks : SavePredictions(t)
    \/ \E t \in Tasks : RunBacktest(t)
    \/ \E t \in Tasks : CycleFails(t)
    \/ TriggerAnalysis

Spec == Init /\ [][Next]_vars

\* The cycles that run without a manual trigger: the two tasks that
\* lifespan creates, with no POST /trigger-analysis
LifespanTasks == {t \in Tasks : t <= 1}

CycleNext ==
    \/ \E t \in LifespanTasks : StartInitial(t)
    \/ \E t \in LifespanTasks : TimerFires(t)
    \/ \E t \in LifespanTasks : Research(t)
    \/ \E t \in LifespanTasks : SaveDrawPatterns(t)
    \/ \E t \in LifespanTasks : ScrapeAndScore(t)
    \/ \E t \in LifespanTasks : SavePredictions(t)
    \/ \E t \in LifespanTasks : RunBacktest(t)
    \/ \E t \in LifespanTasks : CycleFails(t)

SpecCycle == Init /\ [][CycleNext]_vars

-----------------------------------------------------------------------------
(* The cycles of lifespan beside POST /result/{pred_id}                    *)

\* the result strings the form posts: 'draw' marks a HIT, any other a MISS
ResultValues == {"draw", "Draw", "home"}

\* mark_result: update_prediction_result, then run_backtest_analysis; an id
\* no row has updates nothing
MarkResult ==
    /\ \E pred_id \in 1..(Len(predictions_table) + 1), result \in ResultValues :
          LET marked == update_prediction_result(predictions_table, pred_id,
                                                 result, 0)
          IN  /\ predictions_table' = marked
              /\ \E hits \in BacktestSelect(marked, "HIT", today),
                    misses \in BacktestSelect(marked, "MISS", today) :
                    /\ backtest_hits' = BacktestRows(marked, "HIT", today, hits)
                    /\ backtest_misses' = BacktestRows(marked, "MISS", today, misses)
    /\ UNCHANGED <<analysis_running, pc, frame, ticks, requests, responses,
                   today, draw_patterns_table, fn_vars>>

ResultsNext == CycleNext \/ MarkResult

SpecResults == Init /\ [][ResultsNext]_vars

-----------------------------------------------------------------------------
(* calculate_ev as a function: one call on inputs drawn from bounded sets  *)

EvLeagues ==
    {"Championship", "championship", "EFL Championship", "Scottish Premiership",
     "MLS", "Premier League"}

\* even hundredths: no product of these with a probability is a rounding tie
EvOdds == {250, 350, 358, 360, 378, 380, 420}

EvLiquidities == {1000000, 1000001, 2000000}

EvBoosts == {-300000, -100000, -30000, 0, 333, 50000, 200000}

\* a match may lack the liquidity key
EvMatches ==
    {[fixture_id |-> 1, league |-> l, draw_odds |-> o] :
        l \in EvLeagues, o \in EvOdds}
    \cup {[fixture_id |-> 1, league |-> l, draw_odds |-> o, liquidity |-> q] :
            l \in EvLeagues, o \in EvOdds, q \in EvLiquidities}

EvInit ==
    /\ EffectIdle
    /\ AppInit
    /\ ev_args \in {<<[match |-> m, pattern_boosts |-> b]>> :
                       m \in EvMatches, b \in EvBoosts}
    /\ ev_ret = << >>
    /\ kelly_args = << >> /\ kelly_ret = << >>
    /\ dash_rows = << >> /\ dash_resp = << >>
    /\ AnalyzerIdle

CallCalculateEv ==
    /\ ev_args # << >>
    /\ ev_ret = << >>
    /\ ev_ret' = <<calculate_ev(ev_args[1].match, ev_args[1].pattern_boosts)>>
    /\ ev_after' = <<MatchAfterCalculateEv(ev_args[1].match)>>
    /\ UNCHANGED <<app_vars, fetch, cp_after, ev_args, kelly_args, kelly_ret,
                   dash_rows, dash_resp, analyzer_vars>>

EvNext == CallCalculateEv

SpecEV == EvInit /\ [][EvNext]_vars

-----------------------------------------------------------------------------
(* kelly_stake and the dashboard loop that calls it, on drawn inputs       *)

KellyBankrolls == {0, 100, 1000}

KellyOdds == {50, 90, 100, 101, 150, 222, 350, 420}

KellyProbs == {0, 100, 238, 280, 450, 1000}

DashRowPool ==
    << [pred_id |-> 1, draw_odds |-> 350, model_prob |-> 450, ev_percent |-> 575],
       [pred_id |-> 2, draw_odds |-> 100, model_prob |-> 450, ev_percent |-> 60],
       [pred_id |-> 3, draw_odds |-> 420, model_prob |-> 280, ev_percent |-> 176] >>

KellyInit ==
    /\ EffectIdle
    /\ AppInit
    /\ ev_args = << >> /\ ev_ret = << >>
    /\ kelly_args \in {<<[bankroll |-> b, odds |-> o, prob |-> p]>> :
                          b \in KellyBankrolls, o \in KellyOdds, p \in KellyProbs}
    /\ kelly_ret = << >>
    /\ dash_rows \in SubLists(DashRowPool, MaxDashRows)
    /\ dash_resp = << >>
    /\ AnalyzerIdle

CallKellyStake ==
    /\ kelly_args # << >>
    /\ kelly_ret = << >>
    /\ kelly_ret' = <<kelly_stake(kelly_args[1].bankroll, kelly_args[1].odds,
                                  kelly_args[1].prob)>>
    /\ UNCHANGED <<app_vars, effect_vars, ev_args, ev_ret, kelly_args, dash_rows, dash_resp,
                   analyzer_vars>>

\* GET / with dash_rows as the result of get_todays_predictions
DashboardRequest ==
    /\ dash_resp = << >>
    /\ dash_resp' = <<dashboard(dash_rows)>>
    /\ UNCHANGED <<app_vars, effect_vars, ev_args, ev_ret, kelly_args, kelly_ret, dash_rows,
                   analyzer_vars>>

KellyNext == CallKellyStake \/ DashboardRequest

SpecKelly == KellyInit /\ [][KellyNext]_vars

-----------------------------------------------------------------------------
(* combine_patterns on drawn pattern lists, and again with each list       *)
(* reordered                                                               *)

\* a drawn match as _extract_draw_data returns it
Draw(league, league_id, home, away, score) ==
    [date |-> "2026-10-31", league |-> league, league_id |-> league_id,
     home |-> home, away |-> away, score |-> score,
     home_odds |-> "None", draw_odds |-> "None", away_odds |-> "None"]

\* perform_analysis, step 1, over the patterns of the combiner:
\* sum(p.get('boost', 0) for p in draw_patterns) / max(1, len(draw_patterns))
\* in binary64
RECURSIVE BoostSum(_)
BoostSum(draw_patterns) ==
    IF draw_patterns = << >> THEN DyZero
    ELSE FAdd(BoostSum(SubSeq(draw_patterns, 1, Len(draw_patterns) - 1)),
              IF "boost" \in DOMAIN draw_patterns[Len(draw_patterns)]
              THEN draw_patterns[Len(draw_patterns)].boost ELSE DyZero)

CycleBoost(draw_patterns) ==
    FDivSmall(BoostSum(draw_patterns), Max(1, Len(draw_patterns)))

RecentPool ==
    << HotStreakPattern("League One", 1, "1-1", 4,
                        <<Draw("League One", 41, "Barnsley", "Wigan", "1-1")>>),
       HotStreakPattern("Championship", 2, "0-0", 3,
                        <<Draw("Championship", 40, "Leeds", "Stoke", "0-0")>>),
       HotStreakPattern("Serie A", 5, "1-1", 2,
                        <<Draw("Serie A", 135, "Lazio", "Torino", "1-1")>>),
       HotStreakPattern("Eredivisie", 12, "2-2", 1,
                        <<Draw("Eredivisie", 88, "Ajax", "Utrecht", "2-2")>>) >>

LearnedPool ==
    << LearnedPattern("Scottish Championship",
                      <<"HIGH DRAW LEAGUE", "AI MODEL">>, 116, 2),
       AvoidPattern("MLS", <<"AI MODEL">>, 176, 2) >>

CombineArgs ==
    {<<[historical_draws |-> h, learned_patterns |-> l, static_patterns |-> s]>> :
        h \in SubLists(RecentPool, MaxListLen),
        l \in SubLists(LearnedPool, MaxListLen),
        s \in SubLists(static, MaxListLen)}

Reorderings(n) ==
    {f \in [1..n -> 1..n] : \A i, j \in 1..n : i # j => f[i] # f[j]}

Reorder(list, perm) == [i \in 1..Len(list) |-> list[perm[i]]]

CombineInit ==
    /\ EffectIdle
    /\ AppInit
    /\ ScorerIdle
    /\ cp_args \in CombineArgs
    /\ cp_ret = << >>
    /\ cp_perm = << >> /\ cp_perm_ret = << >>
    /\ learn_db = << >> /\ learn_ret = << >>
    /\ ip_args = << >> /\ ip_ret = << >>
    /\ patterns_arg = << >>

CallCombinePatterns ==
    /\ cp_ret = << >>
    /\ cp_ret' = <<combine_patterns(cp_args[1].historical_draws,
                                    cp_args[1].learned_patterns,
                                    cp_args[1].static_patterns)>>
    /\ cp_after' = <<ArgumentsAfterCombine(cp_args[1].historical_draws,
                                           cp_args[1].learned_patterns,
                                           cp_args[1].static_patterns)>>
    /\ UNCHANGED <<app_vars, fetch, ev_after, scorer_vars, cp_args, cp_perm, cp_perm_ret,
                   learn_db, learn_ret, ip_args, ip_ret, patterns_arg>>

CallCombineReordered ==
    /\ cp_ret # << >>
    /\ cp_perm = << >>
    /\ \E ph \in Reorderings(Len(cp_args[1].historical_draws)),
          pl \in Reorderings(Len(cp_args[1].learned_patterns)),
          ps \in Reorderings(Len(cp_args[1].static_patterns)) :
          LET h == Reorder(cp_args[1].historical_draws, ph)
              l == Reorder(cp_args[1].learned_patterns, pl)
              s == Reorder(cp_args[1].static_patterns, ps)
          IN  /\ cp_perm' = <<[historical_draws |-> h, learned_patterns |-> l,
                               static_patterns |-> s]>>
              /\ cp_perm_ret' = <<combine_patterns(h, l, s)>>
    /\ UNCHANGED <<app_vars, effect_vars, scorer_vars, cp_args, cp_ret,
                   learn_db, learn_ret, ip_args, ip_ret, patterns_arg>>

CombineNext == CallCombinePatterns \/ CallCombineReordered

SpecCombine == CombineInit /\ [][CombineNext]_vars

-----------------------------------------------------------------------------
(* learn_from_marked_results over predictions tables that cycles have      *)
(* written and POST /result has marked                                     *)

\* the tasks as lifespan leaves them, with no request handled yet
ProcessIdle ==
    /\ analysis_running = FALSE
    /\ pc = [t \in Tasks |->
                IF t = 0 THEN "scheduled"
                ELSE IF IsTimer(t) THEN "sleeping"
                ELSE "unborn"]
    /\ frame = [t \in Tasks |-> NoFrame]
    /\ ticks = 0
    /\ requests = 0
    /\ responses = << >>

HistoryFixtures ==
    [sc |-> [fixture_id |-> 201, kickoff |-> "15:00",
             league |-> "Scottish Championship", home |-> "Ayr",
             away |-> "Morton", odds_market |-> <<370>>],
     l1a |-> [fixture_id |-> 202, kickoff |-> "15:00", league |-> "League One",
              home |-> "Barnsley", away |-> "Wigan", odds_market |-> <<330>>],
     l1b |-> [fixture_id |-> 203, kickoff |-> "15:00", league |-> "League One",
              home |-> "Bolton", away |-> "Exeter", odds_market |-> <<350>>],
     mls |-> [fixture_id |-> 204, kickoff |-> "19:45", league |-> "MLS",
              home |-> "Austin", away |-> "Dallas", odds_market |-> << >>]]

\* the table after n cycles with no boost scored the fixture on that date
\* and saved its prediction, each then marked with result ("pending": left
\* unmarked)
RECURSIVE AddHistory(_, _, _, _, _)
AddHistory(table, api_fixture, date, n, result) ==
    IF n = 0 THEN table
    ELSE LET predictions == ScoreFixtures(<<BuildFixture(api_fixture)>>, 0, date)
             saved == save_predictions(table, predictions, 0)
             marked == IF result = "pending" \/ predictions = << >> THEN saved
                       ELSE update_prediction_result(saved, Len(saved), result, 0)
         IN  AddHistory(marked, api_fixture, date, n - 1, result)

\* histories on day 40: a HIT group of a rows and one earlier HIT of the
\* same group from day 5, a HIT group of b rows with two different
\* ev_percent, a MISS group of c rows, and a prediction still pending
HistoryTables ==
    {AddHistory(AddHistory(AddHistory(AddHistory(AddHistory(AddHistory(<< >>,
        HistoryFixtures.sc, 5, old, "draw"),
        HistoryFixtures.sc, 40, a, "draw"),
        HistoryFixtures.l1a, 40, b, "draw"),
        HistoryFixtures.l1b, 40, IF b > 0 THEN 1 ELSE 0, "draw"),
        HistoryFixtures.mls, 40, c, "home"),
        HistoryFixtures.sc, 40, p, "pending") :
      old \in 0..1, a \in 0..MaxGroupRows, b \in 0..1, c \in 0..MaxGroupRows,
      p \in 0..1}

LearnInit ==
    /\ EffectIdle
    /\ ProcessIdle
    /\ today = 40
    /\ predictions_table \in HistoryTables
    /\ draw_patterns_table = << >>
    /\ backtest_hits = << >>
    /\ backtest_misses = << >>
    /\ ScorerIdle
    /\ cp_args = << >> /\ cp_ret = << >>
    /\ cp_perm = << >> /\ cp_perm_ret = << >>
    /\ learn_db \in {<<FTDDatabase>>, <<ConnectionProvider>>}
    /\ learn_ret = << >>
    /\ ip_args = << >> /\ ip_ret = << >>
    /\ patterns_arg = << >>

CallLearnFromMarkedResults ==
    /\ learn_ret = << >>
    /\ learn_ret' \in {<<r>> : r \in learn_from_marked_results(
                                        learn_db[1], predictions_table, today)}
    /\ UNCHANGED <<app_vars, effect_vars, scorer_vars, cp_args, cp_ret, cp_perm, cp_perm_ret,
                   learn_db, ip_args, ip_ret, patterns_arg>>

LearnNext == CallLearnFromMarkedResults

SpecLearn == LearnInit /\ [][LearnNext]_vars

-----------------------------------------------------------------------------
(* _identify_patterns over lists of recent draws                           *)

RECURSIVE Repeat(_, _)
Repeat(x, n) == IF n = 0 THEN << >> ELSE <<x>> \o Repeat(x, n - 1)

\* the draws analyze_recent_draws collected: runs of four kinds of match,
\* in either order of the runs
IdentifyDraws ==
    LET a == Draw("Scottish Championship", 180, "Ayr", "Raith", "1-1")
        b == Draw("League One", 41, "Barnsley", "Wigan", "0-0")
        c == Draw("Serie A", 135, "Lazio", "Torino", "2-2")
        d == Draw("League One", 41, "Bolton", "Exeter", "1-1")
    IN  UNION {{Repeat(a, na) \o Repeat(b, nb) \o Repeat(c, nc) \o Repeat(d, nd),
                Repeat(d, nd) \o Repeat(c, nc) \o Repeat(b, nb) \o Repeat(a, na)} :
                  na \in 0..MaxLeagueDraws, nb \in 0..MaxLeagueDraws,
                  nc \in 0..2, nd \in 0..1}

IdentifyInit ==
    /\ EffectIdle
    /\ AppInit
    /\ ScorerIdle
    /\ cp_args = << >> /\ cp_ret = << >>
    /\ cp_perm = << >> /\ cp_perm_ret = << >>
    /\ learn_db = << >> /\ learn_ret = << >>
    /\ ip_args \in {<<draws>> : draws \in IdentifyDraws}
    /\ ip_ret = << >>
    /\ patterns_arg = << >>

CallIdentifyPatterns ==
    /\ ip_ret = << >>
    /\ \E patterns \in _identify_patterns(ip_args[1]) : ip_ret' = <<patterns>>
    /\ UNCHANGED <<app_vars, effect_vars, scorer_vars, cp_args, cp_ret, cp_perm, cp_perm_ret,
                   learn_db, learn_ret, ip_args, patterns_arg>>

IdentifyNext == CallIdentifyPatterns

SpecIdentify == IdentifyInit /\ [][IdentifyNext]_vars

-----------------------------------------------------------------------------
(* save_draw_patterns over lists of patterns of the evidence sources       *)

\* patterns as the sources build them; the first two are what the learner
\* emits for two groups of one league
SavePool ==
    << LearnedPattern("League One", <<"HIGH DRAW LEAGUE", "AI MODEL">>, 386, 2),
       LearnedPattern("League One", <<"AI MODEL">>, 470, 3),
       AvoidPattern("MLS", <<"AI MODEL">>, 176, 2),
       RecentPool[3],
       static[1],
       static[2] >>

\* the lists of at most MaxListLen different patterns of the pool
SaveLists ==
    {[i \in 1..Len(ix) |-> SavePool[ix[i]]] :
        ix \in {s \in UNION {[1..k -> 1..Len(SavePool)] : k \in 0..MaxListLen} :
                   \A i, j \in 1..Len(s) : i # j => s[i] # s[j]}}

PatternsInit ==
    /\ EffectIdle
    /\ ProcessIdle
    /\ today = 40
    /\ predictions_table = << >>
    /\ draw_patterns_table = << >>
    /\ backtest_hits = << >>
    /\ backtest_misses = << >>
    /\ ScorerIdle
    /\ AnalyzerIdle

\* db.save_draw_patterns(patterns)
CallSaveDrawPatterns ==
    /\ \E patterns \in SaveLists :
          /\ draw_patterns_table' = save_draw_patterns(today, patterns)
          /\ patterns_arg' = <<patterns>>
    /\ UNCHANGED <<analysis_running, pc, frame, ticks, requests, responses,
                   today, predictions_table, backtest_hits, backtest_misses,
                   scorer_vars, effect_vars, cp_args, cp_ret, cp_perm,
                   cp_perm_ret, learn_db, learn_ret, ip_args, ip_ret>>

PatternsNext == CallSaveDrawPatterns

SpecPatterns == PatternsInit /\ [][PatternsNext]_vars

-----------------------------------------------------------------------------
(* run_backtest_analysis as step 5 of a cycle, over a marked history       *)

BacktestFixtures ==
    << [fixture_id |-> 301, kickoff |-> "15:00", league |-> "League One",
        home |-> "Barnsley", away |-> "Wigan", odds_market |-> <<330>>],
       [fixture_id |-> 302, kickoff |-> "15:00", league |-> "League One",
        home |-> "Bolton", away |-> "Exeter", odds_market |-> <<420>>],
       [fixture_id |-> 303, kickoff |-> "15:00", league |-> "Championship",
        home |-> "Leeds", away |-> "Stoke", odds_market |-> <<330>>],
       [fixture_id |-> 304, kickoff |-> "18:00", league |-> "Eredivisie",
        home |-> "Ajax", away |-> "Utrecht", odds_market |-> <<420>>],
       [fixture_id |-> 305, kickoff |-> "15:00", league |-> "Scottish",
        home |-> "Ayr", away |-> "Morton", odds_market |-> <<330>>],
       [fixture_id |-> 306, kickoff |-> "15:00", league |-> "League Two",
        home |-> "Crewe", away |-> "Barrow", odds_market |-> <<420>>],
       [fixture_id |-> 307, kickoff |-> "20:00", league |-> "Primeira Liga",
        home |-> "Braga", away |-> "Boavista", odds_market |-> <<350>>],
       [fixture_id |-> 308, kickoff |-> "16:00", league |-> "Premier League",
        home |-> "Fulham", away |-> "Everton", odds_market |-> <<330>>] >>

\* the table after the entries <<fixture, date, n, result>> of a history
RECURSIVE History(_)
History(entries) ==
    IF entries = << >> THEN << >>
    ELSE LET e == entries[Len(entries)]
         IN  AddHistory(History(SubSeq(entries, 1, Len(entries) - 1)),
                        e[1], e[2], e[3], e[4])

\* the HITs of day 9, which the 30 days of day 39 still cover and those of
\* day 40 no longer
OldHistory(old) == History(<< <<BacktestFixtures[8], 9, old, "draw">> >>)

\* histories on day 40: seven HIT groups, two MISS groups, a pending row
BacktestHistory(old, a, b, c, d, m, n) ==
    History(<< <<BacktestFixtures[8], 9, old, "draw">>,
               <<BacktestFixtures[1], 40, a, "draw">>,
               <<BacktestFixtures[2], 40, 2, "draw">>,
               <<BacktestFixtures[3], 40, 3, "draw">>,
               <<BacktestFixtures[4], 40, b, "draw">>,
               <<BacktestFixtures[5], 40, 1, "draw">>,
               <<BacktestFixtures[6], 40, c, "draw">>,
               <<BacktestFixtures[7], 40, d, "draw">>,
               <<BacktestFixtures[1], 40, m, "home">>,
               <<BacktestFixtures[3], 40, n, "away">>,
               <<BacktestFixtures[5], 40, 1, "pending">> >>)

\* task 0 is in perform_analysis before step 5; the snapshot tables hold
\* what the run of day 39 wrote
BacktestInit ==
    /\ EffectIdle
    /\ analysis_running = TRUE
    /\ pc = [t \in Tasks |->
                IF t = 0 THEN "backtest"
                ELSE IF IsTimer(t) THEN "sleeping"
                ELSE "unborn"]
    /\ today = 40
    /\ frame = [t \in Tasks |->
                   IF t = 0
                   THEN [NoFrame EXCEPT !.cycle = CycleOfTask(0), !.today = 40]
                   ELSE NoFrame]
    /\ ticks = 0
    /\ requests = 0
    /\ responses = << >>
    /\ \E old \in 0..2, a \in 0..MaxHitRows, b \in 1..2, c \in 0..1, d \in 0..1,
          m \in 0..2, n \in 0..1 :
          /\ predictions_table = BacktestHistory(old, a, b, c, d, m, n)
          /\ \E hits \in BacktestSelect(OldHistory(old), "HIT", 39) :
                backtest_hits = BacktestRows(OldHistory(old), "HIT", 39, hits)
    /\ backtest_misses = << >>
    /\ draw_patterns_table = << >>
    /\ ScorerIdle
    /\ AnalyzerIdle

BacktestNext == \E t \in Tasks : RunBacktest(t)

SpecBacktest == BacktestInit /\ [][BacktestNext]_vars

-----------------------------------------------------------------------------
(* The store under the last steps of one cycle and POST /result/{pred_id}  *)

\* task 0 is in perform_analysis before step 4 with the predictions it
\* scored; the store holds the pending predictions of earlier cycles
MarksInit ==
    /\ EffectIdle
    /\ analysis_running = TRUE
    /\ pc = [t \in Tasks |->
                IF t = 0 THEN "save_predictions"
                ELSE IF IsTimer(t) THEN "sleeping"
                ELSE "unborn"]
    /\ today = 40
    /\ \E fixtures \in ScrapedFixtures, total_boost \in {0, 60000} :
          LET predictions == ScoreFixtures(fixtures, total_boost, 40)
          IN  /\ predictions # << >>
              /\ frame = [t \in Tasks |->
                            IF t = 0
                            THEN [NoFrame EXCEPT !.cycle = CycleOfTask(0),
                                                 !.today = 40,
                                                 !.total_boost = total_boost,
                                                 !.fixtures = fixtures,
                                                 !.predictions = predictions]
                            ELSE NoFrame]
    /\ ticks = 0
    /\ requests = 0
    /\ responses = << >>
    /\ \E n \in 0..MaxPendingRows :
          predictions_table = AddHistory(<< >>, BacktestFixtures[1], 39, n, "pending")
    /\ backtest_hits = << >>
    /\ backtest_misses = << >>
    /\ draw_patterns_table = << >>
    /\ ScorerIdle
    /\ AnalyzerIdle

MarksNext ==
    \/ \E t \in Tasks : SavePredictions(t)
    \/ \E t \in Tasks : RunBacktest(t)
    \/ MarkResult

SpecMarks == MarksInit /\ [][MarksNext]_vars

-----------------------------------------------------------------------------
(* The fetch loops: analyze_recent_draws over league batches and days,     *)
(* scrape_todays_fixtures over league batches.  fetch holds the locals of  *)
(* one call, a log of the requests it sent (sent), what the answers with   *)
(* status 200 carried (succeeded) and whether a 429 was answered (limited) *)
(* response is the status code of the local response, 0 while it is unbound *)

\* fixtures of a response to analyze_recent_draws: two finished draws, a
\* finished win and a match not started (its goals are None: -1 here)
PlayedPool ==
    << [short |-> "FT", home_goals |-> 1, away_goals |-> 1,
        league |-> "League One", league_id |-> 41,
        home |-> "Barnsley", away |-> "Wigan"],
       [short |-> "FT", home_goals |-> 0, away_goals |-> 0,
        league |-> "Serie A", league_id |-> 135,
        home |-> "Lazio", away |-> "Torino"],
       [short |-> "FT", home_goals |-> 2, away_goals |-> 1,
        league |-> "League One", league_id |-> 41,
        home |-> "Bolton", away |-> "Exeter"],
       [short |-> "NS", home_goals |-> -1, away_goals |-> -1,
        league |-> "Serie A", league_id |-> 135,
        home |-> "Parma", away |-> "Genoa"] >>

ScoreString(goals) ==
    CASE goals = 0 -> "0-0" [] goals = 1 -> "1-1" [] goals = 2 -> "2-2"

\* the draws that the loop over the fixtures of a response appends
RECURSIVE DrawsIn(_)
DrawsIn(fixtures) ==
    IF fixtures = << >> THEN << >>
    ELSE LET fixture == Head(fixtures)
         IN  (IF /\ fixture.short = "FT"
                 /\ fixture.home_goals = fixture.away_goals
                 /\ fixture.home_goals # -1
              THEN <<Draw(fixture.league, fixture.league_id, fixture.home,
                          fixture.away, ScoreString(fixture.home_goals))>>
              ELSE << >>) \o DrawsIn(Tail(fixtures))

\* what a request may end in: a response with a status code (of a 200 the
\* body may fail to parse: "malformed"), or requests.get raising
DrawAnswers ==
    {[kind |-> "response", status_code |-> 200, fixtures |-> <<PlayedPool[k]>>] :
        k \in 1..Len(PlayedPool)}
    \cup {[kind |-> "response", status_code |-> code, fixtures |-> << >>] :
             code \in {200, 429, 500}}
    \cup {[kind |-> "malformed", status_code |-> 200, fixtures |-> << >>],
          [kind |-> "exception", status_code |-> 0, fixtures |-> << >>]}

FixtureAnswers ==
    {[kind |-> "response", status_code |-> 200, fixtures |-> resp] :
        resp \in ApiResponses}
    \cup {[kind |-> "response", status_code |-> code, fixtures |-> << >>] :
             code \in {429, 403, 500}}
    \cup {[kind |-> "malformed", status_code |-> 200, fixtures |-> << >>],
          [kind |-> "exception", status_code |-> 0, fixtures |-> << >>]}

BreaksLoopNever(fn, status_code) == FALSE

\* the status codes on which the loop of fn breaks
BreaksLoop(fn, status_code) ==
    IF fn = "analyze_recent_draws" THEN status_code = 429
    ELSE status_code \in {429, 403}

FetchFrame(fn) ==
    [fn |-> fn, pc |-> "loop", i |-> 1, d |-> 1, response |-> 0,
     all |-> << >>, sent |-> << >>, succeeded |-> << >>, limited |-> FALSE,
     raised |-> "none", ret |-> << >>]

FetchInit ==
    /\ AppInit
    /\ ScorerIdle
    /\ AnalyzerIdle
    /\ cp_after = << >> /\ ev_after = << >>
    /\ fetch \in {<<FetchFrame("analyze_recent_draws")>>,
                  <<FetchFrame("scrape_todays_fixtures")>>}

\* one iteration of the loop over dates_to_check, with what follows it
\* when it is the last of its batch (the test of response after the loop)
\* and of the call (_identify_patterns and the return)
RequestDraws ==
    /\ fetch # << >>
    /\ fetch[1].fn = "analyze_recent_draws"
    /\ fetch[1].pc = "loop"
    /\ \E answer \in DrawAnswers :
          LET f == fetch[1]
              ok == answer.kind = "response" /\ answer.status_code = 200
              response == IF answer.kind = "exception" THEN f.response
                          ELSE answer.status_code
              all_draws == IF ok THEN f.all \o DrawsIn(answer.fixtures) ELSE f.all
              g == [f EXCEPT !.sent = Append(f.sent, <<f.i, f.d>>),
                             !.response = response,
                             !.all = all_draws,
                             !.succeeded = IF ok
                                           THEN f.succeeded \o DrawsIn(answer.fixtures)
                                           ELSE f.succeeded,
                             !.limited = \/ f.limited
                                         \/ /\ answer.kind = "response"
                                            /\ answer.status_code = 429]
              broke == answer.kind = "response"
                          /\ BreaksLoop(f.fn, answer.status_code)
          IN  IF ~broke /\ f.d < MaxDays
              THEN fetch' = <<[g EXCEPT !.d = f.d + 1]>>
              ELSE IF response = 0
              THEN fetch' = <<[g EXCEPT !.pc = "raised",
                                        !.raised = "UnboundLocalError"]>>
              ELSE IF BreaksLoop(f.fn, response) \/ f.i = MaxBatches
              THEN \E patterns \in _identify_patterns(all_draws) :
                      fetch' = <<[g EXCEPT !.pc = "returned", !.ret = patterns]>>
              ELSE fetch' = <<[g EXCEPT !.i = f.i + 1, !.d = 1]>>
    /\ UNCHANGED <<app_vars, scorer_vars, analyzer_vars, cp_after, ev_after>>

\* one iteration of the loop over the batches of scrape_todays_fixtures,
\* with the return when it is the last
RequestFixtures ==
    /\ fetch # << >>
    /\ fetch[1].fn = "scrape_todays_fixtures"
    /\ fetch[1].pc = "loop"
    /\ \E answer \in FixtureAnswers :
          LET f == fetch[1]
              ok == answer.kind = "response" /\ answer.status_code = 200
              built == [k \in 1..Len(answer.fixtures) |->
                           BuildFixture(answer.fixtures[k])]
              all_fixtures == IF ok THEN f.all \o built ELSE f.all
              g == [f EXCEPT !.sent = Append(f.sent, <<f.i, 1>>),
                             !.response = IF answer.kind = "exception"
                                          THEN f.response ELSE answer.status_code,
                             !.all = all_fixtures,
                             !.succeeded = IF ok THEN f.succeeded \o built
                                           ELSE f.succeeded,
                             !.limited = \/ f.limited
                                         \/ /\ answer.kind = "response"
                                            /\ answer.status_code = 429]
              broke == answer.kind = "response"
                          /\ BreaksLoop(f.fn, answer.status_code)
          IN  IF broke \/ f.i = MaxBatches
              THEN fetch' = <<[g EXCEPT !.pc = "returned", !.ret = all_fixtures]>>
              ELSE fetch' = <<[g EXCEPT !.i = f.i + 1]>>
    /\ UNCHANGED <<app_vars, scorer_vars, analyzer_vars, cp_after, ev_after>>

FetchNext == RequestDraws \/ RequestFixtures

SpecFetch == FetchInit /\ [][FetchNext]_vars

-----------------------------------------------------------------------------
(* Properties                                                              *)

\* C1: in every reachable state at most one execution of perform_analysis
\* is in progress, whichever of the startup run, the timer loop and the
\* manual triggers started it.
C1_AtMostOneCycle == Cardinality(Running) <= 1

\* C2: a POST /trigger-analysis that arrives while some analysis cycle is
\* executing is answered 409 already_running and creates no task.
C2_TriggerRejectedWhileRunning ==
    [][(requests' = requests + 1 /\ Running # {})
          => /\ responses'[Len(responses')].status_code = 409
             /\ responses'[Len(responses')].status = "already_running"
             /\ pc' = pc]_vars

\* the rows of the predictions table that cycle c has written for fixture f
RowsFor(c, f) ==
    {i \in 1..Len(predictions_table) :
        /\ predictions_table[i].cycle = c
        /\ predictions_table[i].kickoff = f.kickoff
        /\ predictions_table[i].league = f.league
        /\ predictions_table[i].home = f.home
        /\ predictions_table[i].away = f.away}

\* C3: a cycle writes a prediction for a fixture it scraped if and only if
\* the ev_percent that calculate_ev computes for the fixture is strictly
\* greater than 5: no row is ever written for a fixture at or below 5%, and
\* once the cycle has passed its persistence step (it is at the backtest
\* step) every fixture above 5% has a row, which carries that ev_percent.
C3_PersistedIffAboveThreshold ==
    \A t \in Tasks :
        InPerform(t) =>
            \A i \in 1..Len(frame[t].fixtures) :
                LET f == frame[t].fixtures[i]
                    ev == calculate_ev(f, frame[t].total_boost).ev_percent
                    rows == RowsFor(frame[t].cycle, f)
                IN  /\ rows # {} => ev > 50
                    /\ pc[t] = "backtest" => (rows # {} <=> ev > 50)
                    /\ \A r \in rows : predictions_table[r].ev_percent = ev

\* a cycle is past its persistence step with a scraped fixture at exactly
\* 5.0% and no row for it, while a fixture above 5% has been persisted
C3_Witness ==
    /\ \E t \in Tasks :
          /\ pc[t] = "backtest"
          /\ \E i \in 1..Len(frame[t].fixtures) :
                /\ calculate_ev(frame[t].fixtures[i],
                                frame[t].total_boost).ev_percent = 50
                /\ RowsFor(frame[t].cycle, frame[t].fixtures[i]) = {}
    /\ \E r \in 1..Len(predictions_table) : predictions_table[r].ev_percent > 50

\* the call of calculate_ev has returned
EvReturned == ev_args # << >> /\ ev_ret # << >>

\* C4: the model_prob that calculate_ev returns is at most 0.45, however
\* many additive adjustments stack.
C4_ModelProbAtMostCap == EvReturned => ev_ret[1].model_prob <= 450

\* every adjustment applies (league, low odds, liquidity, a positive boost),
\* their sum is above 0.45 and the call has returned
C4_Witness ==
    /\ EvReturned
    /\ IsDrawProne(ev_args[1].match.league)
    /\ ev_args[1].match.draw_odds < 360
    /\ GetLiquidity(ev_args[1].match) > 1000000
    /\ ev_args[1].pattern_boosts > 0
    /\ base_prob(ev_args[1].match, ev_args[1].pattern_boosts) > 450000

\* C5: the model_prob that calculate_ev returns is at least 0 for every
\* pattern_boosts value, negative ones included.
C5_ModelProbAtLeastZero == EvReturned => ev_ret[1].model_prob >= 0

\* C6: ev_percent is (model_prob * draw_odds - 1) * 100 rounded to one
\* decimal, model_prob being the capped probability of the same call: it is
\* the tenth of a percent nearest to that value (at most half a tenth away).
C6_EvPercentFromCappedProb ==
    EvReturned =>
        LET m == ev_args[1].match
            capped == Min(base_prob(m, ev_args[1].pattern_boosts), 450000)
            exact == capped * m.draw_odds - 100000000
        IN  2 * Abs(ev_ret[1].ev_percent * 100000 - exact) <= 100000

\* a call in which the cap has lowered the probability has returned, and
\* its ev_percent is the one of 0.45, not of the uncapped sum
C6_Witness ==
    /\ EvReturned
    /\ base_prob(ev_args[1].match, ev_args[1].pattern_boosts) > 450000
    /\ ev_ret[1].ev_percent * 100000
          = 450000 * ev_args[1].match.draw_odds - 100000000

\* the league names of EvLeagues that contain, case-sensitively, a name of
\* the draw-prone list
EvDrawProneLeagues == {"Championship", "EFL Championship", "Scottish Premiership"}

\* 0.28 + b + L + O + Q of C7, in millionths
C7_RunningTotal(m, b) ==
    280000 + b
      + (IF m.league \in EvDrawProneLeagues THEN 80000 ELSE 0)
      + (IF m.draw_odds < 360 THEN 60000
         ELSE IF 360 <= m.draw_odds /\ m.draw_odds < 380 THEN 40000 ELSE 0)
      + (IF "liquidity" \in DOMAIN m /\ m.liquidity > 1000000 THEN 30000 ELSE 0)

\* C7: model_prob is min(0.28 + b + L + O + Q, 0.45) (the returned field is
\* that value to three decimals); Championship at odds 3.50 with liquidity
\* 2,000,000 and b = 0.05 gives 0.45 and 57.5%, an unknown league at odds
\* 4.20 with low liquidity and b = 0 gives 0.28 and 17.6%.
C7_ModelProbFormula ==
    EvReturned =>
        LET m == ev_args[1].match
            b == ev_args[1].pattern_boosts
            expected == Min(C7_RunningTotal(m, b), 450000)
        IN  /\ model_prob(m, b) = expected
            /\ 2 * Abs(ev_ret[1].model_prob * 1000 - expected) <= 1000
            /\ expected % 1000 = 0 => ev_ret[1].model_prob * 1000 = expected
            /\ (m.league = "Championship" /\ m.draw_odds = 350
                  /\ GetLiquidity(m) = 2000000 /\ b = 50000)
                  => ev_ret[1].model_prob = 450 /\ ev_ret[1].ev_percent = 575
            /\ (m.league = "MLS" /\ m.draw_odds = 420
                  /\ GetLiquidity(m) <= 1000000 /\ b = 0)
                  => ev_ret[1].model_prob = 280 /\ ev_ret[1].ev_percent = 176

\* the call on the lower-case "championship" at odds exactly 3.60 with
\* liquidity exactly 1,000,000 has returned: no league bonus, the 0.04 odds
\* tier, no liquidity bonus
C7_Witness ==
    /\ EvReturned
    /\ ev_args[1].match.league = "championship"
    /\ ev_args[1].match.draw_odds = 360
    /\ GetLiquidity(ev_args[1].match) = 1000000
    /\ ev_args[1].pattern_boosts = 0
    /\ ev_ret[1].model_prob = 320

\* the call of kelly_stake has returned a value (it has not raised)
KellyReturned ==
    kelly_args # << >> /\ kelly_ret # << >> /\ kelly_ret[1].raised = "none"

\* C8: whenever kelly_stake returns a value, the stake s satisfies
\* 0 <= s <= 0.05 * bankroll.
C8_StakeWithinBounds ==
    KellyReturned =>
        /\ kelly_ret[1].stake.num >= 0
        /\ 20 * kelly_ret[1].stake.num
              <= kelly_args[1].bankroll * kelly_ret[1].stake.den

\* a call whose quarter-Kelly amount is above 5% of the bankroll has
\* returned exactly 5% of the bankroll
C8_Witness ==
    /\ KellyReturned
    /\ kelly_args[1].bankroll = 1000
    /\ kelly_args[1].odds = 350
    /\ kelly_args[1].prob = 450
    /\ kelly_ret[1].stake = [num |-> 50, den |-> 1]

\* C9: for every odds value other than 1.0, kelly_stake returns 0 whenever
\* prob * odds <= 1.
C9_NoStakeWithoutEdge ==
    (KellyReturned /\ kelly_args[1].odds # 100
        /\ kelly_args[1].prob * kelly_args[1].odds <= 100000)
        => kelly_ret[1].stake.num = 0

\* C10: kelly_stake with odds = 1.0 is rejected in a controlled way
\* (ValueError) or returns the stake 0, and the dashboard renders a row for
\* every prediction whose stake can be computed.
C10_DegenerateOddsHandled ==
    /\ (kelly_args # << >> /\ kelly_ret # << >> /\ kelly_args[1].odds = 100)
          => \/ kelly_ret[1].raised = "ValueError"
             \/ kelly_ret[1].raised = "none" /\ kelly_ret[1].stake.num = 0
    /\ dash_resp # << >>
          => /\ dash_resp[1].status_code = 200
             /\ \A i \in 1..Len(dash_rows) :
                   dash_rows[i].draw_odds # 100
                      => \E j \in 1..Len(dash_resp[1].rendered) :
                            dash_resp[1].rendered[j].pred_id = dash_rows[i].pred_id

-----------------------------------------------------------------------------
(* combine_patterns                                                        *)

CombineReturned == cp_args # << >> /\ cp_ret # << >>

\* 2^-40, under 1e-12: the accuracy asked of a binary64 result
FloatTolerance == Dyadic(1, <<1>>, -40)

\* the exact sum of boost * weight over a list
RECURSIVE ExactWeightedSum(_, _)
ExactWeightedSum(list, weight) ==
    IF list = << >> THEN DyZero
    ELSE DyAdd(DyMulSmall(Head(list).boost, weight),
               ExactWeightedSum(Tail(list), weight))

\* |x - y| <= FloatTolerance * scale
FloatClose(x, y, scale) ==
    DyLeq(DyAbs(DySub(x, y)), DyMulSmall(FloatTolerance, scale))

\* C11: combine_patterns returns the patterns of the three lists, all of
\* them and in order, those of the recent list with weight 3.0, of the
\* learned list with 2.0, of the static list with 1.0, and total_boost is
\* the sum of boost * weight over the sum of the weights (both taken
\* exactly, total_boost being the binary64 result of that quotient)
C11_WeightedMean ==
    CombineReturned =>
        LET h == cp_args[1].historical_draws
            l == cp_args[1].learned_patterns
            s == cp_args[1].static_patterns
            r == cp_ret[1]
            weights == 3 * Len(h) + 2 * Len(l) + Len(s)
            exact == DyAdd(ExactWeightedSum(h, 3),
                           DyAdd(ExactWeightedSum(l, 2), ExactWeightedSum(s, 1)))
        IN  /\ r.raised = "none"
            /\ Len(r.patterns) = Len(h) + Len(l) + Len(s)
            /\ \A i \in 1..Len(h) :
                  /\ r.patterns[i].weight = 3
                  /\ r.patterns[i].type = h[i].type
                  /\ r.patterns[i].boost = h[i].boost
            /\ \A i \in 1..Len(l) :
                  /\ r.patterns[Len(h) + i].weight = 2
                  /\ r.patterns[Len(h) + i].type = l[i].type
                  /\ r.patterns[Len(h) + i].boost = l[i].boost
            /\ \A i \in 1..Len(s) :
                  /\ r.patterns[Len(h) + Len(l) + i].weight = 1
                  /\ r.patterns[Len(h) + Len(l) + i].type = s[i].type
                  /\ r.patterns[Len(h) + Len(l) + i].boost = s[i].boost
            /\ weights > 0 =>
                  FloatClose(DyMulSmall(r.total_boost, weights), exact, weights)

\* C11 witness: a call with patterns in all three lists, two of them from
\* one source, has returned
C11_Witness ==
    /\ CombineReturned
    /\ Len(cp_args[1].historical_draws) >= 2
    /\ Len(cp_args[1].learned_patterns) >= 1
    /\ Len(cp_args[1].static_patterns) >= 1
    /\ cp_ret[1].raised = "none"
    /\ Len(cp_ret[1].patterns) >= 4
    /\ cp_ret[1].total_boost # DyZero

CombineReordered == CombineReturned /\ cp_perm # << >> /\ cp_perm_ret # << >>

\* C12 as claimed: a call with the lists reordered returns the identical
\* total_boost
C12_ReorderedIdentical ==
    CombineReordered => cp_perm_ret[1].total_boost = cp_ret[1].total_boost

\* C12 as amended: a call with the lists reordered returns a total_boost
\* within 1e-12 of the first
C12_ReorderedWithinTolerance ==
    CombineReordered =>
        /\ cp_perm_ret[1].raised = "none"
        /\ FloatClose(cp_perm_ret[1].total_boost, cp_ret[1].total_boost, 1)

\* C12 witness: a reordered call returned a different float, within
\* the tolerance
C12_Witness ==
    /\ CombineReordered
    /\ cp_perm[1] # cp_args[1]
    /\ cp_perm_ret[1].total_boost # cp_ret[1].total_boost
    /\ FloatClose(cp_perm_ret[1].total_boost, cp_ret[1].total_boost, 1)

\* C13: with three empty lists combine_patterns raises nothing and returns
\* total_boost 0 and no pattern
C13_EmptyIsZero ==
    (/\ CombineReturned
     /\ cp_args[1].historical_draws = << >>
     /\ cp_args[1].learned_patterns = << >>
     /\ cp_args[1].static_patterns = << >>)
    => /\ cp_ret[1].raised = "none"
       /\ cp_ret[1].total_boost = DyZero
       /\ cp_ret[1].patterns = << >>

\* C13 witness: the call with three empty lists has returned
C13_Witness ==
    /\ CombineReturned
    /\ cp_args[1] = [historical_draws |-> << >>, learned_patterns |-> << >>,
                     static_patterns |-> << >>]
    /\ cp_ret[1].raised = "none"

-----------------------------------------------------------------------------
(* learn_from_marked_results                                               *)

LearnReturned == learn_db # << >> /\ learn_ret # << >>

\* the patterns the call has emitted: none when it raised
LearnEmitted ==
    IF learn_ret[1].raised = "none" THEN learn_ret[1].learned_patterns ELSE << >>

\* the emitted patterns for a (league, reasons) group of an outcome
EmittedFor(status, key) ==
    {i \in 1..Len(LearnEmitted) :
        /\ LearnEmitted[i].details.source =
              (IF status = "HIT" THEN "learned_from_results"
               ELSE "learned_from_failures")
        /\ LearnEmitted[i].details.league = key.league
        /\ LearnEmitted[i].details.reasons = key.reasons}

\* the rows of the table that are in the group, counted one by one
RowsInGroup(status, key) ==
    {i \in 1..Len(predictions_table) :
        /\ predictions_table[i].status = status
        /\ predictions_table[i].date >= today - 30
        /\ predictions_table[i].league = key.league
        /\ predictions_table[i].reasons = key.reasons}

AllGroups ==
    {[league |-> predictions_table[i].league,
      reasons |-> predictions_table[i].reasons] : i \in 1..Len(predictions_table)}

\* C14: once learn_from_marked_results has run, every (league, reasons)
\* group with 2 or more HIT (MISS) predictions of the last 30 days has
\* exactly one emitted pattern, and a group with fewer has none
C14_OnePatternPerGroupOfTwo ==
    LearnReturned =>
        \A status \in {"HIT", "MISS"}, key \in AllGroups :
            Cardinality(EmittedFor(status, key)) =
                (IF Cardinality(RowsInGroup(status, key)) >= 2 THEN 1 ELSE 0)

FloatLess(x, y) == DyLeq(x, y) /\ x # y

HitPatterns ==
    {i \in 1..Len(LearnEmitted) :
        LearnEmitted[i].details.source = "learned_from_results"}

MissPatterns ==
    {i \in 1..Len(LearnEmitted) :
        LearnEmitted[i].details.source = "learned_from_failures"}

\* C15: a learned HIT pattern (n >= 2) has 0 < boost <= 0.20 and a larger
\* group never a smaller boost; a learned MISS pattern (n >= 2) has
\* -0.10 <= boost < 0 and a larger group never a smaller penalty
C15_LearnedBoostBounds ==
    LearnReturned =>
        /\ \A i \in HitPatterns :
              /\ LearnEmitted[i].count >= 2
              /\ LearnEmitted[i].count =
                    Cardinality(RowsInGroup("HIT", LearnEmitted[i].details))
              /\ FloatLess(DyZero, LearnEmitted[i].boost)
              /\ DyLeq(LearnEmitted[i].boost, Literal("0.20"))
        /\ \A i, j \in HitPatterns :
              LearnEmitted[i].count <= LearnEmitted[j].count
                 => DyLeq(LearnEmitted[i].boost, LearnEmitted[j].boost)
        /\ \A i \in MissPatterns :
              /\ LearnEmitted[i].count >= 2
              /\ LearnEmitted[i].count =
                    Cardinality(RowsInGroup("MISS", LearnEmitted[i].details))
              /\ FloatLess(LearnEmitted[i].boost, DyZero)
              /\ DyLeq(DyNeg(LearnEmitted[i].boost), Literal("0.10"))
        /\ \A i, j \in MissPatterns :
              LearnEmitted[i].count <= LearnEmitted[j].count
                 => DyLeq(DyNeg(LearnEmitted[i].boost), DyNeg(LearnEmitted[j].boost))

\* C15 witness: one call emitted a HIT pattern for a group of 2 with a
\* boost under the cap, a HIT pattern for a larger group at the cap 0.20,
\* and a MISS pattern at the cap -0.10
C15_Witness ==
    /\ LearnReturned
    /\ learn_ret[1].raised = "none"
    /\ \E i, j \in HitPatterns :
          /\ LearnEmitted[i].count = 2
          /\ FloatLess(LearnEmitted[i].boost, Literal("0.20"))
          /\ LearnEmitted[j].count >= 7
          /\ LearnEmitted[j].boost = Literal("0.20")
    /\ \E i \in MissPatterns :
          /\ LearnEmitted[i].count >= 5
          /\ LearnEmitted[i].boost = DyNeg(Literal("0.10"))

-----------------------------------------------------------------------------
IdentifyReturned == ip_args # << >> /\ ip_ret # << >>

\* the hot-streak patterns of the returned list are those that carry a rank
HotStreaksReturned ==
    {ip_ret[1][i] : i \in {k \in 1..Len(ip_ret[1]) : "rank" \in DOMAIN ip_ret[1][k]}}

DrawCountOf(league) ==
    Cardinality({i \in 1..Len(ip_args[1]) : ip_args[1][i].league = league})

\* C16: every league with a recent draw gets one hot-streak pattern whose
\* boost is a non-decreasing step function of the league's draw count,
\* positive already for one draw (0.03) and exactly 0.18 from ten draws on
C16_HotStreakStepFunction ==
    IdentifyReturned =>
        /\ \A i \in 1..Len(ip_args[1]) :
              Cardinality({p \in HotStreaksReturned :
                              p.details.league = ip_args[1][i].league}) = 1
        /\ \A p \in HotStreaksReturned :
              /\ p.count = DrawCountOf(p.details.league)
              /\ p.count >= 1
              /\ FloatLess(DyZero, p.boost)
              /\ p.count = 1 => p.boost = Literal("0.03")
              /\ p.count >= 10 => p.boost = Literal("0.18")
              /\ DyLeq(p.boost, Literal("0.18"))
        /\ \A p, q \in HotStreaksReturned :
              p.count <= q.count => DyLeq(p.boost, q.boost)

\* a league with one draw at 0.03 beside a league with twelve at 0.18
C16_Witness ==
    /\ IdentifyReturned
    /\ \E p, q \in HotStreaksReturned :
          /\ p.count = 1 /\ p.boost = Literal("0.03")
          /\ q.count = 12 /\ q.boost = Literal("0.18")

-----------------------------------------------------------------------------
\* C17: a prediction that is HIT or MISS keeps its status and its result in
\* every later step (a second mark of the same id, a later cycle's save)
C17_MarkedIsFinal ==
    [][\A i \in 1..Len(predictions_table) :
          predictions_table[i].status \in {"HIT", "MISS"} =>
              /\ i <= Len(predictions_table')
              /\ predictions_table'[i].id = predictions_table[i].id
              /\ predictions_table'[i].status = predictions_table[i].status
              /\ predictions_table'[i].result = predictions_table[i].result]_vars

-----------------------------------------------------------------------------
\* C18: the predictions store never holds two rows with the same natural key
\* (date, fixture): a save of a key that is stored replaces the stored row
C18_OneRowPerNaturalKey ==
    \A i, j \in 1..Len(predictions_table) :
        (/\ predictions_table[i].date = predictions_table[j].date
         /\ predictions_table[i].league = predictions_table[j].league
         /\ predictions_table[i].home = predictions_table[j].home
         /\ predictions_table[i].away = predictions_table[j].away) => i = j

-----------------------------------------------------------------------------
SaveReturned == patterns_arg # << >>

\* C19: after save_draw_patterns(P) the pattern store is exactly P: as many
\* rows as P has patterns, every pattern of P stored as a row of its own
\* (also patterns of one type), and no other row
C19_StoreIsExactlyP ==
    SaveReturned =>
        /\ Len(draw_patterns_table) = Len(patterns_arg[1])
        /\ \A i \in 1..Len(patterns_arg[1]) :
              Cardinality({j \in 1..Len(draw_patterns_table) :
                              draw_patterns_table[j] =
                                  PatternRow(today, patterns_arg[1][i])}) =
              Cardinality({j \in 1..Len(patterns_arg[1]) :
                              patterns_arg[1][j] = patterns_arg[1][i]})
        /\ \A j \in 1..Len(draw_patterns_table) :
              \E i \in 1..Len(patterns_arg[1]) :
                 draw_patterns_table[j] = PatternRow(today, patterns_arg[1][i])

-----------------------------------------------------------------------------
BacktestReturned == pc[0] = "finished"

\* the marked rows of the trailing 30 days in a (league, reasons) group
CurrentRows(status, league, reasons) ==
    {i \in 1..Len(predictions_table) :
        /\ predictions_table[i].status = status
        /\ predictions_table[i].date >= today - 30
        /\ predictions_table[i].league = league
        /\ predictions_table[i].reasons = reasons}

SnapshotIsTop(snapshot, status) ==
    /\ Len(snapshot) <= 5
    /\ \A i \in 1..Len(snapshot) :
          /\ snapshot[i].analysis_date = today
          /\ snapshot[i].count >= 1
          /\ snapshot[i].count =
                Cardinality(CurrentRows(status, snapshot[i].league,
                                        snapshot[i].reasons))
          /\ \A j \in 1..Len(snapshot) :
                (/\ snapshot[j].league = snapshot[i].league
                 /\ snapshot[j].reasons = snapshot[i].reasons) => i = j
    /\ \A r \in 1..Len(predictions_table) :
          LET row == predictions_table[r]
              left_out == \A i \in 1..Len(snapshot) :
                              \/ snapshot[i].league # row.league
                              \/ snapshot[i].reasons # row.reasons
          IN  (row.status = status /\ row.date >= today - 30 /\ left_out) =>
                 \A i \in 1..Len(snapshot) :
                    snapshot[i].count >=
                       Cardinality(CurrentRows(status, row.league, row.reasons))

\* C20: after run_backtest_analysis the snapshot holds only groups of the
\* current predictions with their counts, at most 5 HIT and at most 5 MISS
\* groups, and no group left out is larger than a group of its outcome
\* that is in the snapshot
C20_SnapshotIsCurrentTopFive ==
    BacktestReturned =>
        /\ SnapshotIsTop(backtest_hits, "HIT")
        /\ SnapshotIsTop(backtest_misses, "MISS")

\* seven HIT groups compete for the 5 places, a snapshot of day 39 held a
\* group that has no row in the current 30 days
C20_Witness ==
    /\ BacktestReturned
    /\ Len(backtest_hits) = 5
    /\ Len(backtest_misses) = 2
    /\ Cardinality({<<predictions_table[i].league, predictions_table[i].reasons>> :
                      i \in {r \in 1..Len(predictions_table) :
                               /\ predictions_table[r].status = "HIT"
                               /\ predictions_table[r].date >= today - 30}}) = 7
    /\ \E r \in 1..Len(predictions_table) :
          /\ predictions_table[r].status = "HIT"
          /\ predictions_table[r].date < today - 30
          /\ \A i \in 1..Len(backtest_hits) :
                backtest_hits[i].league # predictions_table[r].league

-----------------------------------------------------------------------------
\* C21: every prediction's status is pending, HIT or MISS; a row a save
\* adds is pending; a marked row is HIT exactly when its result is 'draw',
\* MISS for every other result, and holds the result as it was posted
C21_StatusFollowsResult ==
    /\ [](\A i \in 1..Len(predictions_table) :
            LET row == predictions_table[i]
            IN  /\ row.status \in {"pending", "HIT", "MISS"}
                /\ row.status = "pending" => row.result = "NULL"
                /\ row.status = "HIT" <=> row.result = "draw"
                /\ row.status = "MISS" => row.result \in ResultValues \ {"draw"})
    /\ [][\A i \in 1..Len(predictions_table') :
            i > Len(predictions_table) =>
                predictions_table'[i].status = "pending"]_vars

\* one row marked with 'draw' is HIT beside one marked with 'Draw', a MISS
C21_Witness ==
    \E i, j \in 1..Len(predictions_table) :
        /\ predictions_table[i].status = "HIT"
        /\ predictions_table[i].result = "draw"
        /\ predictions_table[j].status = "MISS"
        /\ predictions_table[j].result = "Draw"

-----------------------------------------------------------------------------
DrawsCall == fetch # << >> /\ fetch[1].fn = "analyze_recent_draws"

\* C22: whichever requests fail, analyze_recent_draws raises no error and
\* returns the patterns of the draws in the responses that succeeded
C22_FailuresAreSkipped ==
    DrawsCall =>
        /\ fetch[1].pc # "raised"
        /\ fetch[1].pc = "returned" =>
              fetch[1].ret \in _identify_patterns(fetch[1].succeeded)

-----------------------------------------------------------------------------
\* C23: once a fixtures request is answered 429, the call sends no further
\* fixtures request and has returned, without an error, what it built from
\* the responses before the 429
C23_RateLimitEndsFetching ==
    /\ [](fetch # << >> /\ fetch[1].limited =>
            /\ fetch[1].pc = "returned"
            /\ fetch[1].fn = "analyze_recent_draws" =>
                  fetch[1].ret \in _identify_patterns(fetch[1].succeeded)
            /\ fetch[1].fn = "scrape_todays_fixtures" =>
                  fetch[1].ret = fetch[1].succeeded)
    /\ [][fetch # << >> /\ fetch[1].limited =>
            fetch'[1].sent = fetch[1].sent]_vars

\* a 429 after a response with a draw, with a day and a batch still to go
C23_Witness ==
    /\ DrawsCall
    /\ fetch[1].limited
    /\ fetch[1].succeeded # << >>
    /\ fetch[1].ret # << >>
    /\ Len(fetch[1].sent) < MaxBatches * MaxDays - 1

-----------------------------------------------------------------------------
\* C24: whenever a cycle ends (perform_analysis returns, after its last step
\* or through its except clause), analysis_running is False, and the timer
\* task is never finished
C24_FlagClearAtCycleEnd ==
    /\ [](\A t \in Tasks : IsTimer(t) => pc[t] # "finished")
    /\ [][\A t \in Tasks :
            (InPerform(t) /\ pc'[t] \in {"sleeping", "finished"})
                => ~analysis_running']_vars

-----------------------------------------------------------------------------
\* C25: the boost a cycle computes from the combined patterns and passes to
\* calculate_ev is the total_boost combine_patterns returned for them, the
\* weighted mean (0 with no patterns), up to the rounding of binary64
C25_CycleBoostIsTotalBoost ==
    (CombineReturned /\ cp_ret[1].raised = "none") =>
        FloatClose(CycleBoost(cp_ret[1].patterns), cp_ret[1].total_boost, 1)

-----------------------------------------------------------------------------
LabelRank(label) ==
    CASE label = "HIGH DRAW LEAGUE" -> 1
      [] label = "LOW ODDS" -> 2
      [] label = "AI MODEL" -> 3
      [] OTHER -> 0

\* C26: reasons holds its labels in the order HIGH DRAW LEAGUE, LOW ODDS,
\* AI MODEL, each at most once: the first exactly when the league bonus was
\* added, the second exactly when draw_odds < 3.60, AI MODEL always and last
C26_ReasonsInFixedOrder ==
    EvReturned =>
        LET reasons == ev_ret[1].reasons
            match == ev_args[1].match
            has(label) == \E i \in 1..Len(reasons) : reasons[i] = label
        IN  /\ reasons # << >>
            /\ reasons[Len(reasons)] = "AI MODEL"
            /\ \A i \in 1..Len(reasons) : LabelRank(reasons[i]) > 0
            /\ \A i, j \in 1..Len(reasons) :
                  i < j => LabelRank(reasons[i]) < LabelRank(reasons[j])
            /\ has("HIGH DRAW LEAGUE") <=> LeagueAdjustment(match.league) > 0
            /\ has("HIGH DRAW LEAGUE") <=>
                  \E k \in 1..Len(draw_prone_leagues) :
                     Contains(Chars(draw_prone_leagues[k]), Chars(match.league))
            /\ has("LOW ODDS") <=> match.draw_odds < 360

\* all three labels for a draw-prone league at odds under 3.60, and AI MODEL
\* alone is what another call would give at 3.60
C26_Witness ==
    /\ EvReturned
    /\ ev_ret[1].reasons = <<"HIGH DRAW LEAGUE", "LOW ODDS", "AI MODEL">>
    /\ ev_args[1].match.draw_odds = 358

-----------------------------------------------------------------------------
\* C27: combine_patterns leaves every pattern of its three argument lists
\* as it was (no field added, none overwritten), and calculate_ev leaves
\* the match it was given as it was
C27_ArgumentsUnchanged ==
    /\ (CombineReturned /\ cp_after # << >>) => cp_after[1] = cp_args[1]
    /\ (EvReturned /\ ev_after # << >>) => ev_after[1] = ev_args[1].match

-----------------------------------------------------------------------------
\* the regional patterns of the returned list are those with a country
RegionalReturned ==
    {ip_ret[1][i] : i \in {k \in 1..Len(ip_ret[1]) :
                             "country" \in DOMAIN ip_ret[1][k].details}}

RegionCountOf(country) ==
    Cardinality({i \in 1..Len(ip_args[1]) :
                    _extract_country(ip_args[1][i].league) = country})

\* C28: a region has a regional pattern, and just one, exactly when at
\* least 5 draws of the list are of that region; its boost is
\* min(0.10, 0.015 * n) for n draws: it grows with n, never beyond 0.10,
\* which is below the 0.18 of a league
C28_RegionalFromFiveDraws ==
    IdentifyReturned =>
        /\ \A i \in 1..Len(ip_args[1]) :
              LET country == _extract_country(ip_args[1][i].league)
              IN  Cardinality({p \in RegionalReturned :
                                  p.details.country = country}) =
                  (IF RegionCountOf(country) >= 5 THEN 1 ELSE 0)
        /\ \A p \in RegionalReturned :
              /\ p.count = RegionCountOf(p.details.country)
              /\ p.count >= 5
              /\ p.boost = FloatMin(Literal("0.10"),
                                    FMulSmall(Literal("0.015"), p.count))
              /\ FloatClose(p.boost,
                            IF p.count >= 7 THEN Literal("0.10")
                            ELSE DyMulSmall(Literal("0.015"), p.count), 1)
              /\ DyLeq(p.boost, Literal("0.10"))
              /\ FloatLess(p.boost, Literal("0.18"))
        /\ \A p, q \in RegionalReturned :
              p.count <= q.count => DyLeq(p.boost, q.boost)

\* a region of two leagues with exactly 5 draws gets 0.075, beside a region
\* with fewer than 5 draws, which gets no pattern
C28_Witness ==
    /\ IdentifyReturned
    /\ \E p \in RegionalReturned :
          /\ p.count = 5
          /\ p.boost = FMulSmall(Literal("0.015"), 5)
          /\ p.details.leagues_affected = 2
    /\ \E i \in 1..Len(ip_args[1]) :
          LET country == _extract_country(ip_args[1][i].league)
          IN  /\ RegionCountOf(country) < 5
              /\ \A p \in RegionalReturned : p.details.country # country

-----------------------------------------------------------------------------
\* C29: a cycle that ends without a failure ends from its backtest step: a
\* task leaves perform_analysis, by a step other than the except clause,
\* only from step 5, also with no fixtures or no qualifying prediction
C29_CycleReachesBacktest ==
    [][\A t \in Tasks :
          (InPerform(t) /\ ~InPerform(t)' /\ ~CycleFails(t)) => pc[t] = "backtest"]_vars

\* C30: a task created by a trigger that was answered "started" goes on
\* into perform_analysis: run_initial_analysis never returns at its first
\* test of the flag
C30_StartedTriggerRuns ==
    [][\A n \in 1..MaxTriggers :
          (/\ n <= Len(responses)
           /\ responses[n].status = "started"
           /\ pc[TriggerTask(n)] = "scheduled")
          => pc'[TriggerTask(n)] \in {"scheduled", "research"}]_vars

====
